---- MODULE Spec2Model ----
(***************************************************************************)
(* Model of the qa-video build pipeline: the bounded concurrency runner    *)
(* (runConcurrent), the TTS worker pool (TTSPool), the cache helpers       *)
(* (sha, cachedPath, isCached, removeStale) and the four stages of         *)
(* runPipeline.  Strings of the program are TLA+ strings; JavaScript       *)
(* arrays are sequences (index i of the program is position i + 1).        *)
(***************************************************************************)
EXTENDS Integers, Sequences, FiniteSets, TLC

VARIABLES
  \* ---- runConcurrent(tasks, limit) ----
  tasks,      \* per task: "new" | "running" | "ok" | "err" (state of the task's promise)
  limit,      \* the concurrency limit passed by the caller
  results,    \* the results array; Hole where nothing was stored
  next,       \* the shared cursor `next`
  rcWorker,   \* per worker coroutine: [st |-> "await"|"done"|"threw", i |-> task position]
  rcOutcome,  \* promise returned by runConcurrent: "idle"|"running"|"resolved"|"rejected"
  taskVal,    \* the value each task resolved with (Hole until then)
  started,    \* how many times each task thunk has been called
  reordered,  \* TRUE once a task settled while an earlier task was still running
  \* ---- TTSPool ----
  size,        \* TTSPool.size
  states,      \* TTSPool.states: sequence of [proc |-> worker, busy |-> BOOLEAN]
  queue,       \* TTSPool.queue: task ids waiting for a worker
  pending,     \* TTSPool.pending: ids sent to a worker and not answered
  nextId,      \* TTSPool.nextId
  promise,     \* per task id, the promise returned by synthesize
  proc,        \* per worker process: "none" | "loading" | "up" | "failed"
  workerJobs,  \* per worker process: task ids received and not yet replied to
  outbox,      \* per worker process: IPC messages sent and not yet handled by the pool
  handled,     \* per worker process: number of its messages the pool has handled
  initOutcome, \* promise of TTSPool.init: "none" | "pending" | "resolved" | "rejected"
  \* ---- runPipeline ----
  cards,       \* yamlData.questions: sequence of [question, answer] (texts as line sequences)
  config,      \* the PipelineConfig of the current run
  fs,          \* files of tempDir: set of [path, dur] (dur: seconds of audio in a .wav)
  pc,          \* where runPipeline stands
  phase,       \* which voice pool Stage 2 is at: "main" | "code"
  audioPlans,  \* const audioPlans
  uncachedMain, \* const uncachedMain
  uncachedCode, \* const uncachedCode
  planIdx,     \* loop position of Phase 2C (plans already visited)
  segments,    \* const segments
  gapSlidePath, \* const gapSlidePath
  rendering,   \* slide paths whose renderSlide call is in progress
  clipDescs,   \* const clipDescs
  concatList,  \* lines of concat_list.txt as written by concatenateClips
  stats,       \* work done by the current run: synthesis jobs, audio concats, renders, encodes
  runNo,       \* 1 for the first run on this tempDir, 2 for the second
  prev,        \* artifacts of the previous completed run (paths), for comparing runs
  edit,        \* what was changed between the previous run and this one
  \* ---- command line ----
  argv,        \* the options given on the command line (Undefined: not given)
  yamlConfig,  \* yamlData.config of the input file
  batch,       \* the batch command: yamlFiles, the loop index fi, results
  \* ---- web player ----
  state,       \* the PlaybackState held by useReducer(reducer, initialState)
  refs,        \* audioRef and timerRef of usePlayback: what is playing, what is armed
  \* ---- concatenateAudioFiles ----
  partsList,   \* the inputs handed to ffmpeg by the last concatenateAudioFiles call, in order
  \* ---- web server ----
  srv,         \* the TTS queue of the server, the requests in progress and the cache
  \* ---- concatenateClips ----
  ff           \* the ffmpeg command of concatenateClips: durations, lastClip, onProgress calls

rcVars == <<tasks, limit, results, next, rcWorker, rcOutcome, taskVal, started, reordered>>

poolVars == <<size, states, queue, pending, nextId, promise, proc, workerJobs,
              outbox, handled, initOutcome>>

pipeVars == <<cards, config, fs, pc, phase, audioPlans, uncachedMain, uncachedCode,
              planIdx, segments, gapSlidePath, rendering, clipDescs, concatList,
              stats, runNo, prev, edit>>

appVars == <<argv, yamlConfig, batch, state, refs, partsList, srv, ff>>

vars == <<rcVars, poolVars, pipeVars, appVars>>

\* ---------------------------------------------------------------------
\* Bounds
\* ---------------------------------------------------------------------
MaxTasks == 4
MaxLimit == 3
MaxPool == 2
MaxJobs == 4
MaxCards == 2
LifeJobs == 3
LivePool == 1
LiveJobs == 3
StaleCards == 11
MaxFiles == 3
MaxDeck == 5
MaxClips == 3
MaxReq == 2
MaxPlayCards == 5
MaxDur == 2
Cpus == 1
Durations == {1, 2}

Hole == "<empty>"
Undefined == "undefined"
Values == {"u", "v"}

Min(a, b) == IF a < b THEN a ELSE b
Max(a, b) == IF a > b THEN a ELSE b

\* ---------------------------------------------------------------------
\* Text: a text is a sequence of lines; the program's string is the lines
\* joined with "\n".
\* ---------------------------------------------------------------------
RECURSIVE Join(_, _)
Join(lines, sep) ==
  IF lines = <<>> THEN ""
  ELSE IF Len(lines) = 1 THEN lines[1]
  ELSE lines[1] \o sep \o Join(Tail(lines), sep)

RawText(lines) == Join(lines, "\n")

\* preprocessForTTS on one line of the texts used here: the ACRONYMS table
\* rewrites JSON to Jason; a colon directly followed by a character other
\* than space, comma or full stop gets a pause (":, "); a pair of backquotes
\* (written ' here) is dropped around what it encloses.  The other rules
\* (markdown markers, abbreviations, upper-case acronyms of two or more
\* letters, arrows, parentheses) match none of these lines.
PreLine(l) ==
  CASE l = "JSON maps" -> "Jason maps"
    [] l = "What is JSON?" -> "What is Jason?"
    [] l = "Code: a:b" -> "Code: a:, b"
    [] l = "a:b" -> "a:, b"
    [] l = "Use 'x' now" -> "Use x now"
    [] l = "'''js" -> "'js"
    [] OTHER -> l

\* preprocessForTTS(text): every run of newlines becomes ",, " (for a text
\* that neither starts nor ends with a blank line), each line is rewritten.
preprocessForTTS(lines) ==
  Join([k \in 1..Len(SelectSeq(lines, LAMBDA l : l # "")) |->
          PreLine(SelectSeq(lines, LAMBDA l : l # "")[k])], ",, ")

\* line.match(/^```(\w*)$/); the fence of three backquotes is written ''' here.
IsFenceOpen(l) == l \in {"'''", "'''js"}
FenceLang(l) == IF l = "'''js" THEN "js" ELSE ""

\* String.prototype.trim on joined lines: leading and trailing blank lines go.
RECURSIVE TrimLeft(_)
TrimLeft(lines) ==
  IF lines # <<>> /\ Head(lines) = "" THEN TrimLeft(Tail(lines)) ELSE lines
RECURSIVE TrimRight(_)
TrimRight(lines) ==
  IF lines # <<>> /\ lines[Len(lines)] = "" THEN TrimRight(SubSeq(lines, 1, Len(lines) - 1)) ELSE lines
Trim(lines) == TrimRight(TrimLeft(lines))

\* parseMarkdown: the line-by-line fence state machine.  st carries
\* segments, inCode, lang, codeLines, textLines.
RECURSIVE MdScan(_, _)
MdScan(lines, st) ==
  IF lines = <<>> THEN st
  ELSE LET line == Head(lines) IN
    IF ~st.inCode
    THEN IF IsFenceOpen(line)
         THEN LET prose == Trim(st.textLines) IN
              MdScan(Tail(lines),
                     [segments |-> IF prose # <<>>
                                   THEN Append(st.segments, [kind |-> "text", lang |-> "", content |-> prose])
                                   ELSE st.segments,
                      inCode |-> TRUE, lang |-> FenceLang(line),
                      codeLines |-> <<>>, textLines |-> <<>>])
         ELSE MdScan(Tail(lines), [st EXCEPT !.textLines = Append(@, line)])
    ELSE IF line = "'''"
         THEN MdScan(Tail(lines),
                     [segments |-> Append(st.segments, [kind |-> "code", lang |-> st.lang, content |-> st.codeLines]),
                      inCode |-> FALSE, lang |-> "", codeLines |-> <<>>, textLines |-> st.textLines])
         ELSE MdScan(Tail(lines), [st EXCEPT !.codeLines = Append(@, line)])

parseMarkdown(text) ==
  LET st == MdScan(text, [segments |-> <<>>, inCode |-> FALSE, lang |-> "",
                          codeLines |-> <<>>, textLines |-> <<>>])
      textLines == IF st.inCode
                   THEN st.textLines \o <<"'''" \o st.lang>> \o st.codeLines
                   ELSE st.textLines
      remaining == Trim(textLines)
      segs == IF remaining # <<>>
              THEN Append(st.segments, [kind |-> "text", lang |-> "", content |-> remaining])
              ELSE st.segments
  IN IF segs = <<>> THEN <<[kind |-> "text", lang |-> "", content |-> text]>> ELSE segs

\* codeToTTS(seg): the string Code: ${seg.content}
codeToTTS(seg) ==
  IF seg.content = <<>> THEN <<"Code: ">>
  ELSE <<"Code: " \o seg.content[1]>> \o Tail(seg.content)

\* slug(question): a file-name abbreviation of the question text.
slug(question) ==
  CASE question = <<"What is JSON?">> -> "what-is-json"
    [] question = <<"Why?">> -> "why"
    [] OTHER -> "card"

\* ---------------------------------------------------------------------
\* Cache helpers
\* ---------------------------------------------------------------------

\* sha(content): the 8-hex-digit SHA-256 prefix, taken as collision free:
\* a digest that determines its content and contains no separator of the
\* surrounding key.
sha(content) == "<" \o content \o ">"

\* path.join(tempDir, name)
join(dir, name) == dir \o "/" \o name

\* cachedPath(tempDir, prefix, hashContent, ext)
cachedPath(tempDir, prefix, hashContent, ext) ==
  join(tempDir, prefix \o "_" \o sha(hashContent) \o "." \o ext)

\* existsSync(path)
Exists(path) == \E f \in fs : f.path = path

isCached_ignoringForce(filePath, force) == Exists(filePath)

\* isCached(filePath, force)
isCached(filePath, force) == ~force /\ Exists(filePath)

\* ---------------------------------------------------------------------
\* Audio plans (runPipeline, Stage 2)
\* ---------------------------------------------------------------------
MAX_CHUNK_CHARS == 200

audioCacheKey_noVoice(ttsText, voice) ==
  IF Len(ttsText) > MAX_CHUNK_CHARS
  THEN "audio-chunked:" \o ttsText
  ELSE "audio:" \o ttsText

\* audioCacheKey(ttsText, voice)
audioCacheKey(ttsText, voice) ==
  IF Len(ttsText) > MAX_CHUNK_CHARS
  THEN "audio-chunked:" \o ttsText \o ":" \o voice
  ELSE "audio:" \o ttsText \o ":" \o voice

\* The question plan of card i (0-based): always single-part, main voice.
QuestionPlan(card, i, cfg) ==
  LET qSlug == slug(card.question)
      qTTSText == preprocessForTTS(card.question)
      qAudioPath == cachedPath(cfg.tempDir, "q_" \o ToString(i) \o "_" \o qSlug,
                               audioCacheKey(qTTSText, cfg.voice), "wav")
  IN [cardIndex |-> i, isQuestion |-> TRUE, rawText |-> RawText(card.question),
      delay |-> cfg.questionDelay, finalAudioPath |-> qAudioPath,
      parts |-> <<[audioPath |-> qAudioPath, ttsText |-> qTTSText, voice |-> cfg.voice]>>,
      isMultiPart |-> FALSE]

\* The file prefix of part j of a multi-part answer.
PartPrefix(i, qSlug, kind, j) ==
  "a_" \o ToString(i) \o "_" \o qSlug \o "_" \o (IF kind = "code" THEN "c" ELSE "t") \o ToString(j)

SynthPartOf_mainVoice(seg, j, i, qSlug, cfg) ==
  LET rawTTS == IF seg.kind = "code" THEN codeToTTS(seg) ELSE seg.content
      ttsText == preprocessForTTS(rawTTS)
  IN [audioPath |-> cachedPath(cfg.tempDir, PartPrefix(i, qSlug, seg.kind, j),
                               audioCacheKey(ttsText, cfg.voice), "wav"),
      ttsText |-> ttsText, voice |-> cfg.voice]

\* One SynthPart per markdown segment (mdSegs.map((seg, j) => ...)).
SynthPartOf(seg, j, i, qSlug, cfg) ==
  LET rawTTS == IF seg.kind = "code" THEN codeToTTS(seg) ELSE seg.content
      ttsText == preprocessForTTS(rawTTS)
      voice == IF seg.kind = "code" THEN cfg.codeVoice ELSE cfg.voice
  IN [audioPath |-> cachedPath(cfg.tempDir, PartPrefix(i, qSlug, seg.kind, j),
                               audioCacheKey(ttsText, voice), "wav"),
      ttsText |-> ttsText, voice |-> voice]

PartKey_firstPart(parts) == sha(parts[1].ttsText \o ":" \o parts[1].voice)

\* parts.map(p => sha(`${p.ttsText}:${p.voice}`)).join('|')
PartKey(parts) ==
  Join([k \in 1..Len(parts) |-> sha(parts[k].ttsText \o ":" \o parts[k].voice)], "|")

\* The answer plan of card i: single-part when the answer has no code
\* segment, otherwise one part per segment and a concatenated final WAV.
AnswerPlan_finalIsFirstPart(card, i, cfg) ==
  LET mdSegs == parseMarkdown(card.answer)
      parts == [k \in 1..Len(mdSegs) |-> SynthPartOf(mdSegs[k], k - 1, i, slug(card.question), cfg)]
  IN [cardIndex |-> i, isQuestion |-> FALSE, rawText |-> RawText(card.answer),
      delay |-> cfg.answerDelay, finalAudioPath |-> parts[1].audioPath,
      parts |-> parts, isMultiPart |-> \E k \in 1..Len(mdSegs) : mdSegs[k].kind = "code"]

AnswerPlan(card, i, cfg) ==
  LET qSlug == slug(card.question)
      mdSegs == parseMarkdown(card.answer)
      hasCode == \E k \in 1..Len(mdSegs) : mdSegs[k].kind = "code"
  IN IF ~hasCode
     THEN LET aTTSText == preprocessForTTS(card.answer)
              aAudioPath == cachedPath(cfg.tempDir, "a_" \o ToString(i) \o "_" \o qSlug,
                                       audioCacheKey(aTTSText, cfg.voice), "wav")
          IN [cardIndex |-> i, isQuestion |-> FALSE, rawText |-> RawText(card.answer),
              delay |-> cfg.answerDelay, finalAudioPath |-> aAudioPath,
              parts |-> <<[audioPath |-> aAudioPath, ttsText |-> aTTSText, voice |-> cfg.voice]>>,
              isMultiPart |-> FALSE]
     ELSE LET parts == [k \in 1..Len(mdSegs) |-> SynthPartOf(mdSegs[k], k - 1, i, qSlug, cfg)]
              finalAudioPath == cachedPath(cfg.tempDir, "a_" \o ToString(i) \o "_" \o qSlug,
                                           "md-audio:" \o PartKey(parts), "wav")
          IN [cardIndex |-> i, isQuestion |-> FALSE, rawText |-> RawText(card.answer),
              delay |-> cfg.answerDelay, finalAudioPath |-> finalAudioPath,
              parts |-> parts, isMultiPart |-> TRUE]

\* cards.flatMap((card, i) => [qPlan, aPlan])
AudioPlans(cs, cfg) ==
  [k \in 1..(2 * Len(cs)) |->
     IF k % 2 = 1 THEN QuestionPlan(cs[(k + 1) \div 2], (k - 1) \div 2, cfg)
     ELSE AnswerPlan(cs[k \div 2], (k - 2) \div 2, cfg)]

\* The position of the first backquote (written ' here) of str at or after
\* position i, 0 when there is none.
RECURSIVE NextQuote(_, _)
NextQuote(str, i) ==
  IF i > Len(str) THEN 0
  ELSE IF SubSeq(str, i, i) = "'" THEN i
  ELSE NextQuote(str, i + 1)

\* The matches of the inline-span pattern (a backquote, one or more other
\* characters, a backquote) from position i on, with the prose between
\* them; lastIndex is the end of the previous match.
RECURSIVE InlineScan(_, _, _)
InlineScan(str, lastIndex, i) ==
  LET o == NextQuote(str, i)
      c == IF o = 0 THEN 0 ELSE NextQuote(str, o + 1)
  IN IF c = 0
     THEN IF lastIndex < Len(str)
          THEN <<[raw |-> <<SubSeq(str, lastIndex + 1, Len(str))>>, isCode |-> FALSE]>>
          ELSE <<>>
     ELSE IF c = o + 1 THEN InlineScan(str, lastIndex, o + 1)
     ELSE (IF o - 1 > lastIndex
           THEN <<[raw |-> <<SubSeq(str, lastIndex + 1, o - 1)>>, isCode |-> FALSE]>>
           ELSE <<>>)
          \o <<[raw |-> <<SubSeq(str, o + 1, c - 1)>>, isCode |-> TRUE]>>
          \o InlineScan(str, c, c + 1)

splitByInlineCode_proseOnly(content) == <<[raw |-> content, isCode |-> FALSE]>>

\* splitByInlineCode(text): alternating prose and inline-code chunks; a
\* text without a span is one prose chunk.
splitByInlineCode(content) ==
  LET result == InlineScan(RawText(content), 0, 1)
  IN IF \E k \in 1..Len(result) : result[k].isCode
     THEN result
     ELSE <<[raw |-> content, isCode |-> FALSE]>>

\* ttsText.trim() is empty
Blank(str) == \A k \in 1..Len(str) : SubSeq(str, k, k) \in {" ", "\n"}

RECURSIVE PartsOfChunks(_)
PartsOfChunks(chunks) ==
  IF chunks = <<>> THEN <<>>
  ELSE LET ip == Head(chunks)
           ttsText == preprocessForTTS(ip.raw)
       IN (IF ~Blank(ttsText) THEN <<[text |-> ttsText, isCode |-> ip.isCode]>> ELSE <<>>)
          \o PartsOfChunks(Tail(chunks))

\* The TTS parts of one markdown segment (parts with empty text are omitted).
PartsOfSegment(seg) ==
  IF seg.kind = "code"
  THEN LET ttsText == preprocessForTTS(codeToTTS(seg))
       IN IF ~Blank(ttsText) THEN <<[text |-> ttsText, isCode |-> TRUE]>> ELSE <<>>
  ELSE PartsOfChunks(splitByInlineCode(seg.content))

RECURSIVE PartsOfSegments(_)
PartsOfSegments(mdSegs) ==
  IF mdSegs = <<>> THEN <<>>
  ELSE PartsOfSegment(Head(mdSegs)) \o PartsOfSegments(Tail(mdSegs))

\* splitIntoTTSParts(text)
splitIntoTTSParts(text) ==
  LET parts == PartsOfSegments(parseMarkdown(text))
  IN IF parts = <<>> THEN <<[text |-> preprocessForTTS(text), isCode |-> FALSE]>> ELSE parts

\* buildAudioPlan(text, tempDir, prefix, voice, codeVoice)
buildAudioPlan(text, tempDir, prefix, voice, codeVoice) ==
  LET ttsParts == splitIntoTTSParts(text)
      hasCode == \E k \in 1..Len(ttsParts) : ttsParts[k].isCode
  IN IF ~hasCode
     THEN LET ttsText == Join([k \in 1..Len(ttsParts) |-> ttsParts[k].text], " ")
              audioPath == cachedPath(tempDir, prefix, audioCacheKey(ttsText, voice), "wav")
          IN [finalAudioPath |-> audioPath,
              parts |-> <<[audioPath |-> audioPath, ttsText |-> ttsText, voice |-> voice]>>,
              isMultiPart |-> FALSE]
     ELSE LET parts == [k \in 1..Len(ttsParts) |->
                          LET v == IF ttsParts[k].isCode THEN codeVoice ELSE voice
                              partPrefix == prefix \o "_" \o (IF ttsParts[k].isCode THEN "c" ELSE "t")
                                              \o ToString(k - 1)
                          IN [audioPath |-> cachedPath(tempDir, partPrefix,
                                                       audioCacheKey(ttsParts[k].text, v), "wav"),
                              ttsText |-> ttsParts[k].text, voice |-> v]]
          IN [finalAudioPath |-> cachedPath(tempDir, prefix, "md-audio:" \o PartKey(parts), "wav"),
              parts |-> parts, isMultiPart |-> TRUE]

\* plans.flatMap(p => p.parts.filter(keep))
RECURSIVE FlatParts(_, _, _)
FlatParts(plans, main, cfg) ==
  IF plans = <<>> THEN <<>>
  ELSE SelectSeq(Head(plans).parts, LAMBDA pt : (pt.voice = cfg.voice) = main)
       \o FlatParts(Tail(plans), main, cfg)

\* ---------------------------------------------------------------------
\* Slides and clips (runPipeline, Stages 3 and 4)
\* ---------------------------------------------------------------------

\* gapSlideHash
gapSlideHash(cfg, n) ==
  "slide:gap:" \o cfg.backgroundColor \o ":" \o ToString(cfg.fontSize) \o ":" \o ToString(n)

\* slideHash of one segment
slideHash(seg, cfg) ==
  "slide:v3:" \o seg.text \o ":" \o seg.type \o ":" \o ToString(seg.cardIndex)
    \o ":" \o ToString(seg.totalCards) \o ":" \o ToString(cfg.fontSize)
    \o ":" \o cfg.questionColor \o ":" \o cfg.answerColor \o ":" \o cfg.textColor

TypeTag(seg) == IF seg.type = "question" THEN "q" ELSE "a"

\* seg.imagePath for the segment at 0-based position i
SlidePath(seg, i, cfg) ==
  cachedPath(cfg.tempDir, "slide_" \o ToString(i) \o "_" \o TypeTag(seg) \o "_" \o seg.questionSlug,
             slideHash(seg, cfg), "png")

clipHash_noAudio(seg) ==
  "clip:v2:" \o sha(seg.imagePath) \o ":" \o ToString(seg.totalDuration)

\* clipHash of one segment
clipHash(seg) ==
  "clip:v2:" \o sha(seg.audioPath) \o ":" \o sha(seg.imagePath) \o ":" \o ToString(seg.totalDuration)

HasGap_afterEveryAnswer(seg, cfg) == seg.type = "answer" /\ cfg.cardGap > 0

\* Whether a gap clip follows the segment
HasGap(seg, cfg) ==
  seg.type = "answer" /\ seg.cardIndex < seg.totalCards - 1 /\ cfg.cardGap > 0

\* The descriptors pushed for the segment at 0-based position i.
DescsOf(seg, i, cfg, n) ==
  <<[kind |-> "segment", seg |-> i + 1,
     path |-> cachedPath(cfg.tempDir, "clip_" \o ToString(i) \o "_" \o TypeTag(seg) \o "_" \o seg.questionSlug,
                         clipHash(seg), "mp4")]>>
  \o (IF HasGap(seg, cfg)
      THEN <<[kind |-> "gap", seg |-> 0,
              path |-> cachedPath(cfg.tempDir, "gap_" \o ToString(i) \o "_" \o seg.questionSlug,
                                  "gap:" \o sha(gapSlideHash(cfg, n)) \o ":" \o ToString(cfg.cardGap), "mp4")]>>
      ELSE <<>>)

\* const clipDescs: the loop over segments, in order.
RECURSIVE ClipDescs(_, _, _, _)
ClipDescs(segs, i, cfg, n) ==
  IF i >= Len(segs) THEN <<>>
  ELSE DescsOf(segs[i + 1], i, cfg, n) \o ClipDescs(segs, i + 1, cfg, n)

\* ---------------------------------------------------------------------
\* runConcurrent
\* ---------------------------------------------------------------------

WorkerCount_unbounded(n, lim) == n

\* Number of worker coroutines: Math.min(limit, tasks.length); Array.from
\* treats a negative length as 0.
WorkerCount(n, lim) == Max(0, Min(lim, n))

\* Tasks whose promise has been created and has not settled.
InFlight == {i \in 1..Len(tasks) : tasks[i] = "running"}

ResultSlot_shifted(i) == IF i > 1 THEN i - 1 ELSE i

\* The results slot a worker writes after `await tasks[i]()`.
ResultSlot(i) == i

\* The synchronous call: allocate results, next = 0, start the worker
\* coroutines.  Each coroutine runs to its first await, so worker k takes
\* task k (0-based) and `next` ends at the worker count.  imm holds the
\* tasks whose thunk returns without awaiting anything (their promise is
\* already resolved, with undefined, when the worker awaits it).
RCCall(n, lim, imm) ==
  LET w == WorkerCount(n, lim) IN
  /\ rcOutcome = "idle"
  /\ tasks' = [i \in 1..n |-> IF i <= w THEN (IF i \in imm THEN "ok" ELSE "running") ELSE "new"]
  /\ limit' = lim
  /\ results' = [i \in 1..n |-> Hole]
  /\ taskVal' = [i \in 1..n |-> IF i <= w /\ i \in imm THEN Undefined ELSE Hole]
  /\ started' = [i \in 1..n |-> IF i <= w THEN 1 ELSE 0]
  /\ next' = w
  /\ rcWorker' = [k \in 1..w |-> [st |-> "await", i |-> k]]
  /\ rcOutcome' = "running"
  /\ reordered' = FALSE

\* A started task's promise settles: resolved with value v, or rejected.
RCSettle(i, ok, v) ==
  /\ i \in InFlight
  /\ tasks' = [tasks EXCEPT ![i] = IF ok THEN "ok" ELSE "err"]
  /\ taskVal' = [taskVal EXCEPT ![i] = IF ok THEN v ELSE Hole]
  /\ reordered' = (reordered \/ \E j \in InFlight : j < i)
  /\ UNCHANGED <<limit, results, next, rcWorker, rcOutcome, started>>

\* A worker coroutine resumes after its await.  On a value it stores
\* results[i] and runs the loop test again, taking the next task if any;
\* on a rejection the coroutine throws, which rejects Promise.all at once.
RCResume(w, imm) ==
  /\ w \in 1..Len(rcWorker)
  /\ rcWorker[w].st = "await"
  /\ LET i == rcWorker[w].i IN
     /\ tasks[i] \in {"ok", "err"}
     /\ IF tasks[i] = "ok"
        THEN /\ results' = [results EXCEPT ![ResultSlot(i)] = taskVal[i]]
             /\ IF next < Len(tasks)
                THEN /\ next' = next + 1
                     /\ tasks' = [tasks EXCEPT ![next + 1] = IF (next + 1) \in imm THEN "ok" ELSE "running"]
                     /\ taskVal' = [taskVal EXCEPT ![next + 1] = IF (next + 1) \in imm THEN Undefined ELSE @]
                     /\ started' = [started EXCEPT ![next + 1] = @ + 1]
                     /\ rcWorker' = [rcWorker EXCEPT ![w] = [st |-> "await", i |-> next + 1]]
                ELSE /\ rcWorker' = [rcWorker EXCEPT ![w].st = "done"]
                     /\ UNCHANGED <<next, tasks, started, taskVal>>
             /\ UNCHANGED rcOutcome
        ELSE /\ rcWorker' = [rcWorker EXCEPT ![w].st = "threw"]
             /\ rcOutcome' = IF rcOutcome = "running" THEN "rejected" ELSE rcOutcome
             /\ UNCHANGED <<results, next, tasks, started, taskVal>>
  /\ UNCHANGED <<limit, reordered>>

RCReturn_allSettled ==
  /\ rcOutcome \in {"running", "rejected"}
  /\ \A w \in 1..Len(rcWorker) : rcWorker[w].st \in {"done", "threw"}
  /\ rcOutcome' = "resolved"
  /\ UNCHANGED <<tasks, limit, results, next, rcWorker, taskVal, started, reordered>>

\* `await Promise.all(...)` completes once every coroutine has returned.
RCReturn ==
  /\ rcOutcome = "running"
  /\ \A w \in 1..Len(rcWorker) : rcWorker[w].st = "done"
  /\ rcOutcome' = "resolved"
  /\ UNCHANGED <<tasks, limit, results, next, rcWorker, taskVal, started, reordered>>

RCIdle ==
  /\ tasks = <<>> /\ limit = 0 /\ results = <<>> /\ next = 0
  /\ rcWorker = <<>> /\ rcOutcome = "idle" /\ taskVal = <<>> /\ started = <<>>
  /\ reordered = FALSE

\* ---------------------------------------------------------------------
\* TTSPool
\* ---------------------------------------------------------------------
IdleIndex_lastWorker(st) == Len(st)

IdleIndex_anyWorker(st) == IF Len(st) > 0 THEN 1 ELSE 0

\* this.states.find(s => !s.busy): position of the first idle entry, 0 if none.
IdleIndex(st) ==
  IF \E k \in 1..Len(st) : ~st[k].busy
  THEN CHOOSE k \in 1..Len(st) : ~st[k].busy /\ \A j \in 1..(k - 1) : st[j].busy
  ELSE 0

Dispatch_none(p) == p

\* TTSPool.dispatch on p = [states, queue, pending, jobs]: while the queue is
\* not empty and some worker is idle, shift a task, mark the worker busy, add
\* the task to pending and send it to the worker process.
RECURSIVE Dispatch(_)
Dispatch(p) ==
  IF p.queue = <<>> THEN p
  ELSE LET k == IdleIndex(p.states) IN
       IF k = 0 THEN p
       ELSE LET id == Head(p.queue)
                w == p.states[k].proc
            IN Dispatch([states |-> [p.states EXCEPT ![k].busy = TRUE],
                         queue |-> Tail(p.queue),
                         pending |-> p.pending \cup {id},
                         jobs |-> [p.jobs EXCEPT ![w] = @ \cup {id}]])

\* new TTSPool(workerCount)
PoolNew(k) ==
  /\ size = 0
  /\ size' = k
  /\ proc' = [w \in 1..k |-> "none"]
  /\ workerJobs' = [w \in 1..k |-> {}]
  /\ outbox' = [w \in 1..k |-> <<>>]
  /\ handled' = [w \in 1..k |-> 0]
  /\ UNCHANGED <<states, queue, pending, nextId, promise, initOutcome>>

\* TTSPool.init(voice): fork `size` worker processes.
PoolInit ==
  /\ size > 0 /\ initOutcome = "none"
  /\ proc' = [w \in 1..size |-> "loading"]
  /\ initOutcome' = "pending"
  /\ UNCHANGED <<size, states, queue, pending, nextId, promise, workerJobs, outbox, handled>>

\* tts-worker main(): the model is loaded and 'ready' is sent, or loading
\* fails, { type: 'error', id: -1 } is sent and the process exits.
WorkerLoad(w, ok) ==
  /\ w \in 1..size /\ proc[w] = "loading"
  /\ proc' = [proc EXCEPT ![w] = IF ok THEN "up" ELSE "failed"]
  /\ outbox' = [outbox EXCEPT ![w] =
        Append(@, IF ok THEN [type |-> "ready", id |-> -1, duration |-> 0]
                        ELSE [type |-> "error", id |-> -1, duration |-> 0])]
  /\ UNCHANGED <<size, states, queue, pending, nextId, promise, workerJobs, handled, initOutcome>>

\* tts-worker message handler: synthesize, then reply 'done' with the
\* measured duration, or 'error'.
WorkerReply(w, id, ok, d) ==
  /\ w \in 1..size /\ proc[w] = "up"
  /\ id \in workerJobs[w]
  /\ workerJobs' = [workerJobs EXCEPT ![w] = @ \ {id}]
  /\ outbox' = [outbox EXCEPT ![w] =
        Append(@, IF ok THEN [type |-> "done", id |-> id, duration |-> d]
                        ELSE [type |-> "error", id |-> id, duration |-> 0])]
  /\ UNCHANGED <<size, states, queue, pending, nextId, promise, proc, handled, initOutcome>>

\* TTSPool.synthesize(text, outputPath): push the task, then dispatch().
Synthesize ==
  /\ size > 0
  /\ LET id == nextId
         r == Dispatch([states |-> states, queue |-> Append(queue, id),
                        pending |-> pending, jobs |-> workerJobs])
     IN /\ nextId' = nextId + 1
        /\ promise' = Append(promise, [st |-> "pending", v |-> 0])
        /\ states' = r.states
        /\ queue' = r.queue
        /\ pending' = r.pending
        /\ workerJobs' = r.jobs
  /\ UNCHANGED <<size, proc, outbox, handled, initOutcome>>

Settlement_alwaysResolves(msg) == [st |-> "resolved", v |-> msg.duration]

\* if (msg.type === 'error') task.reject(...) else task.resolve(msg.duration ?? 0)
Settlement(msg) ==
  IF msg.type = "error" THEN [st |-> "rejected", v |-> 0]
  ELSE [st |-> "resolved", v |-> msg.duration]

InitResolves_onFirstReady(n, sz) == n >= 1

\* await Promise.all(Array.from({ length: this.size }, ...)): init returns
\* when the n-th of sz per-worker promises has resolved and n = sz.
InitResolves(n, sz) == n = sz

\* The pool handles the oldest unhandled message of worker w.  The first
\* message goes to proc.once('message'): anything but 'ready' rejects init;
\* 'ready' pushes the worker's state and installs the reply handler, and init
\* resolves when all `size` workers have done so.  Later messages go to the
\* reply handler: unknown ids are ignored, otherwise the task leaves pending,
\* the worker becomes idle, the promise settles and dispatch() runs.
PoolOnMessage(w) ==
  /\ w \in 1..size /\ outbox[w] # <<>>
  /\ LET msg == Head(outbox[w]) IN
     /\ outbox' = [outbox EXCEPT ![w] = Tail(@)]
     /\ handled' = [handled EXCEPT ![w] = @ + 1]
     /\ IF handled[w] = 0
        THEN IF msg.type # "ready"
             THEN /\ initOutcome' = IF initOutcome = "pending" THEN "rejected" ELSE initOutcome
                  /\ UNCHANGED <<states, queue, pending, promise, workerJobs>>
             ELSE /\ states' = Append(states, [proc |-> w, busy |-> FALSE])
                  /\ initOutcome' = IF initOutcome = "pending" /\ InitResolves(Len(states) + 1, size)
                                    THEN "resolved" ELSE initOutcome
                  /\ UNCHANGED <<queue, pending, promise, workerJobs>>
        ELSE IF \E k \in 1..Len(states) : states[k].proc = w
             THEN IF msg.id \in pending
                  THEN LET k == CHOOSE j \in 1..Len(states) : states[j].proc = w
                           r == Dispatch([states |-> [states EXCEPT ![k].busy = FALSE],
                                          queue |-> queue,
                                          pending |-> pending \ {msg.id},
                                          jobs |-> workerJobs])
                       IN /\ promise' = [promise EXCEPT ![msg.id + 1] = Settlement(msg)]
                          /\ states' = r.states
                          /\ queue' = r.queue
                          /\ pending' = r.pending
                          /\ workerJobs' = r.jobs
                          /\ UNCHANGED initOutcome
                  ELSE UNCHANGED <<states, queue, pending, promise, workerJobs, initOutcome>>
             ELSE UNCHANGED <<states, queue, pending, promise, workerJobs, initOutcome>>
  /\ UNCHANGED <<size, nextId, proc>>

PoolIdle ==
  /\ size = 0 /\ states = <<>> /\ queue = <<>> /\ pending = {} /\ nextId = 0
  /\ promise = <<>> /\ proc = <<>> /\ workerJobs = <<>> /\ outbox = <<>>
  /\ handled = <<>> /\ initOutcome = "none"

\* ---------------------------------------------------------------------
\* runPipeline: inputs
\* ---------------------------------------------------------------------

\* DEFAULT_CONFIG, with the directories a run is given.
DefaultConfig ==
  [tempDir |-> "tmp", voice |-> "af_heart", codeVoice |-> "am_echo",
   questionDelay |-> 2, answerDelay |-> 3, cardGap |-> 1, fontSize |-> 52,
   backgroundColor |-> "#1a1a2e", questionColor |-> "#16213e",
   answerColor |-> "#0f3460", textColor |-> "#ffffff",
   force |-> FALSE, skipTTS |-> FALSE]

\* ---------------------------------------------------------------------
\* Command line and YAML configuration
\* ---------------------------------------------------------------------

\* No option given on the command line.
NoArgv ==
  [voice |-> Undefined, codeVoice |-> Undefined, questionDelay |-> Undefined,
   answerDelay |-> Undefined]

\* A YAML file without a config section: data.config || {}.  A config
\* object is a function on the keys it has.
NoYaml == [f \in {} |-> ""]

\* y[f] !== undefined
Has(y, f) == f \in DOMAIN y

\* parseFloat on the decimal strings used here.
parseFloat(str) == CHOOSE n \in (0 - 9)..9 : ToString(n) = str

\* sharedOptions: commander fills in the declared default of an option that
\* was not given; --code-voice has no declared default.
sharedOptions(given) ==
  [voice |-> IF given.voice = Undefined THEN DefaultConfig.voice ELSE given.voice,
   codeVoice |-> given.codeVoice,
   questionDelay |-> IF given.questionDelay = Undefined
                     THEN ToString(DefaultConfig.questionDelay) ELSE given.questionDelay,
   answerDelay |-> IF given.answerDelay = Undefined
                   THEN ToString(DefaultConfig.answerDelay) ELSE given.answerDelay]

\* buildConfig(inputPath, opts)
buildConfig(opts) ==
  [DefaultConfig EXCEPT
     !.voice = opts.voice,
     !.codeVoice = IF opts.codeVoice = Undefined THEN DefaultConfig.codeVoice ELSE opts.codeVoice,
     !.questionDelay = parseFloat(opts.questionDelay),
     !.answerDelay = parseFloat(opts.answerDelay)]

\* JavaScript truthiness of the string value of key f.
Truthy(y, f) == Has(y, f) /\ y[f] # ""

\* Stage 1 of runPipeline: a YAML value replaces a config value that equals
\* the built-in default.
Stage1Config(cfg, y) ==
  [cfg EXCEPT
     !.questionDelay = IF Has(y, "questionDelay") /\ @ = DefaultConfig.questionDelay
                       THEN y.questionDelay ELSE @,
     !.answerDelay = IF Has(y, "answerDelay") /\ @ = DefaultConfig.answerDelay
                     THEN y.answerDelay ELSE @,
     !.voice = IF Truthy(y, "voice") /\ @ = DefaultConfig.voice THEN y.voice ELSE @,
     !.codeVoice = IF Truthy(y, "codeVoice") /\ @ = DefaultConfig.codeVoice THEN y.codeVoice ELSE @]

NoBatch == [yamlFiles |-> <<>>, fi |-> 0, results |-> <<>>, existing |-> {}, force |-> FALSE]

\* initialState of usePlayback
initialState ==
  [nCards |-> 0, cardOrder |-> <<>>, currentCardIdx |-> 0, phase |-> "idle",
   isPlaying |-> FALSE, isShuffled |-> FALSE, isQueueMode |-> FALSE, pendingRating |-> "null"]

\* Nothing playing and no timer armed; no concatenation yet; a server with
\* an empty queue, no request and an empty cache.
NoRefs == [audio |-> "none", timer |-> "none"]

NoServer ==
  [plan |-> [parts |-> <<>>, finalAudioPath |-> "", isMultiPart |-> FALSE],
   tts |-> "none", ttsQueue |-> <<>>, processing |-> FALSE, loops |-> {},
   req |-> <<>>, cache |-> {}]

NoFfmpeg == [durs |-> <<>>, st |-> "off", sec |-> 0, lastClip |-> 0, calls |-> <<>>]

ExtraIdle == refs = NoRefs /\ partsList = <<>> /\ srv = NoServer /\ ff = NoFfmpeg

AppIdle ==
  argv = NoArgv /\ yamlConfig = NoYaml /\ batch = NoBatch /\ state = initialState /\ ExtraIdle

NoRun ==
  [ok |-> FALSE, cards |-> <<>>, config |-> DefaultConfig, audioPlans |-> <<>>,
   segments |-> <<>>, gapSlidePath |-> "", clipDescs |-> <<>>]

\* Work counters of a run, and the paths it wrote while a file was there.
NoStats == [synth |-> 0, concat |-> 0, render |-> 0, encode |-> 0, overwritten |-> {}]

NoEdit == [kind |-> "none", card |-> 0, field |-> ""]

PipeIdle ==
  /\ cards = <<>> /\ config = DefaultConfig /\ fs = {} /\ pc = "off" /\ phase = "main"
  /\ audioPlans = <<>> /\ uncachedMain = <<>> /\ uncachedCode = <<>> /\ planIdx = 0
  /\ segments = <<>> /\ gapSlidePath = "" /\ rendering = {} /\ clipDescs = <<>>
  /\ concatList = <<>> /\ stats = NoStats /\ runNo = 0 /\ prev = NoRun /\ edit = NoEdit

\* ---------------------------------------------------------------------
\* runPipeline: the external services
\* ---------------------------------------------------------------------

\* The synthesizer: the audio length it produces is a fixed function of the
\* text and the voice (same text and voice, same audio).
SpeechDuration(ttsText, voice) ==
  1 + (Len(ttsText) % 3) + (IF voice = "af_heart" THEN 0 ELSE 1)

\* getAudioDuration(path)
getAudioDuration(path) == (CHOOSE f \in fs : f.path = path).dur

\* A service writes (or overwrites) the file at path, completely.
WriteFile(files, path, dur) ==
  {f \in files : f.path # path} \cup {[path |-> path, dur |-> dur, partial |-> FALSE]}

\* A writer was stopped after it had created its output file: the file is
\* there, truncated.
WritePartial(files, path) ==
  {f \in files : f.path # path} \cup {[path |-> path, dur |-> 0, partial |-> TRUE]}

\* The paths among ps at which a file exists (the write goes over it).
Overwritten(ps) == {q \in ps : Exists(q)}

\* concatListPath
\* config.outputPath: the final video, outside tempDir.
OutputPath == "output/video.mp4"

ConcatListPath(tempDir) == join(tempDir, "concat_list.txt")

StartsWith(str, pre) == Len(str) >= Len(pre) /\ SubSeq(str, 1, Len(pre)) = pre
EndsWith(str, suf) ==
  Len(str) >= Len(suf) /\ SubSeq(str, Len(str) - Len(suf) + 1, Len(str)) = suf

\* The name of a file of tempDir (readdirSync entry) from its full path.
FileName(dir, path) == SubSeq(path, Len(dir) + 2, Len(path))

\* readdirSync(tempDir) lists the files directly in tempDir.
InDir(dir, path) == StartsWith(path, dir \o "/")

Matches_noSeparator(tempDir, prefix, ext, path) ==
  /\ InDir(tempDir, path)
  /\ StartsWith(FileName(tempDir, path), prefix)
  /\ EndsWith(FileName(tempDir, path), "." \o ext)

\* file.startsWith(needle) && file.endsWith(`.${ext}`)
Matches(tempDir, prefix, ext, path) ==
  /\ InDir(tempDir, path)
  /\ StartsWith(FileName(tempDir, path), prefix \o "_")
  /\ EndsWith(FileName(tempDir, path), "." \o ext)

removeStale_keepNothing(files, tempDir, prefix, ext, keepPath, failing) ==
  [files |-> {f \in files : ~Matches(tempDir, prefix, ext, f.path) \/ f.path \in failing},
   threw |-> FALSE]

removeStale_rethrows(files, tempDir, prefix, ext, keepPath, failing) ==
  LET hit == {f \in files : /\ Matches(tempDir, prefix, ext, f.path)
                            /\ join(tempDir, FileName(tempDir, f.path)) # keepPath}
  IN [files |-> {f \in files : f \notin hit \/ f.path \in failing},
      threw |-> \E f \in hit : f.path \in failing]

\* removeStale(tempDir, prefix, ext, keepPath): the files left afterwards
\* and whether the call threw, when unlink fails for the paths in failing.
\* `await unlink(full).catch(() => {})`: a failed unlink leaves the file and
\* the loop goes on.
removeStale(files, tempDir, prefix, ext, keepPath, failing) ==
  LET hit == {f \in files : /\ Matches(tempDir, prefix, ext, f.path)
                            /\ join(tempDir, FileName(tempDir, f.path)) # keepPath}
  IN [files |-> {f \in files : f \notin hit \/ f.path \in failing},
      threw |-> FALSE]

\* new TTSPool().size
DefaultPoolSize == Max(1, (Cpus * 8) \div 10)

\* clipConcurrency
ClipConcurrency == Max(2, Cpus \div 2)

\* ---------------------------------------------------------------------
\* runPipeline: the run
\* ---------------------------------------------------------------------

\* Stage 1 and the synchronous start of Stage 2: build the audio plans,
\* partition the parts by voice, list the uncached ones; with skipTTS any
\* uncached part is an error.
SkipTTSFails_never(cfg, missing) == FALSE

\* if (skipTTS) { ... if (missing.length > 0) throw ... }
SkipTTSFails(cfg, missing) == cfg.skipTTS /\ Len(missing) > 0

StartRun ==
  /\ pc = "idle"
  /\ LET cfg == Stage1Config(config, yamlConfig)
         plans == AudioPlans(cards, cfg)
         uMain == SelectSeq(FlatParts(plans, TRUE, cfg), LAMBDA pt : ~isCached(pt.audioPath, cfg.force))
         uCode == SelectSeq(FlatParts(plans, FALSE, cfg), LAMBDA pt : ~isCached(pt.audioPath, cfg.force))
     IN /\ config' = cfg
        /\ audioPlans' = plans
        /\ uncachedMain' = uMain
        /\ uncachedCode' = uCode
        /\ pc' = IF SkipTTSFails(cfg, uMain \o uCode) THEN "failed" ELSE "pool"
  /\ phase' = "main"
  /\ UNCHANGED <<cards, fs, planIdx, segments, gapSlidePath, rendering, clipDescs,
                 concatList, stats, runNo, prev, edit>>
  /\ UNCHANGED <<rcVars, poolVars>>
  /\ UNCHANGED appVars

PhaseParts == IF phase = "main" THEN uncachedMain ELSE uncachedCode
PhaseVoice == IF phase = "main" THEN config.voice ELSE config.codeVoice

\* Phase 2A / 2B entry: with uncached parts a pool is created and init is
\* called (the workers are forked); otherwise the phase is skipped.
BeginPool ==
  /\ pc = "pool"
  /\ IF ~config.skipTTS /\ Len(PhaseParts) > 0
     THEN LET k == IF phase = "main" THEN DefaultPoolSize ELSE 1 IN
          /\ size' = k
          /\ states' = <<>> /\ queue' = <<>> /\ pending' = {} /\ nextId' = 0
          /\ promise' = <<>>
          /\ proc' = [w \in 1..k |-> "loading"]
          /\ workerJobs' = [w \in 1..k |-> {}]
          /\ outbox' = [w \in 1..k |-> <<>>]
          /\ handled' = [w \in 1..k |-> 0]
          /\ initOutcome' = "pending"
          /\ pc' = "init"
          /\ UNCHANGED phase
     ELSE /\ pc' = IF phase = "main" THEN "pool" ELSE "concatAudio"
          /\ phase' = "code"
          /\ UNCHANGED poolVars
  /\ UNCHANGED <<cards, config, fs, audioPlans, uncachedMain, uncachedCode, planIdx, segments,
                 gapSlidePath, rendering, clipDescs, concatList, stats, runNo, prev, edit>>
  /\ UNCHANGED rcVars
  /\ UNCHANGED appVars

PipeLoadWorker ==
  /\ pc = "init"
  /\ \E w \in 1..size, ok \in BOOLEAN : WorkerLoad(w, ok)
  /\ UNCHANGED <<rcVars, pipeVars>>
  /\ UNCHANGED appVars

PipeOnMessage ==
  /\ pc \in {"init", "synth"}
  /\ \E w \in 1..size : PoolOnMessage(w)
  /\ UNCHANGED <<rcVars, pipeVars>>
  /\ UNCHANGED appVars

\* init rejected: runPipeline throws.
InitFailed ==
  /\ pc = "init" /\ initOutcome = "rejected"
  /\ pc' = "failed"
  /\ UNCHANGED <<cards, config, fs, phase, audioPlans, uncachedMain, uncachedCode, planIdx,
                 segments, gapSlidePath, rendering, clipDescs, concatList, stats, runNo, prev, edit>>
  /\ UNCHANGED <<rcVars, poolVars>>
  /\ UNCHANGED appVars

\* n successive synthesize calls on the pool state p.
RECURSIVE SynthesizeAll(_, _, _)
SynthesizeAll(p, id, n) ==
  IF id >= n THEN p
  ELSE SynthesizeAll(Dispatch([p EXCEPT !.queue = Append(@, id)]), id + 1, n)

\* init resolved: Promise.all(parts.map(pt => pool.synthesize(...))) calls
\* synthesize for every uncached part of the phase, in order.
SubmitJobs ==
  /\ pc = "init" /\ initOutcome = "resolved"
  /\ LET n == Len(PhaseParts)
         r == SynthesizeAll([states |-> states, queue |-> queue, pending |-> pending,
                             jobs |-> workerJobs], 0, n)
     IN /\ states' = r.states /\ queue' = r.queue /\ pending' = r.pending
        /\ workerJobs' = r.jobs
        /\ nextId' = n
        /\ promise' = [k \in 1..n |-> [st |-> "pending", v |-> 0]]
        /\ stats' = [stats EXCEPT !.synth = @ + n]
  /\ pc' = "synth"
  /\ UNCHANGED <<size, proc, outbox, handled, initOutcome>>
  /\ UNCHANGED <<cards, config, fs, phase, audioPlans, uncachedMain, uncachedCode, planIdx,
                 segments, gapSlidePath, rendering, clipDescs, concatList, runNo, prev, edit>>
  /\ UNCHANGED rcVars
  /\ UNCHANGED appVars

\* A worker finishes a job: on success the WAV is at outputPath and the
\* reply carries its measured duration.
PipeReplyWorker ==
  /\ pc = "synth"
  /\ \E w \in 1..size, id \in 0..(Len(PhaseParts) - 1), ok \in BOOLEAN :
       LET pt == PhaseParts[id + 1]
           d == SpeechDuration(pt.ttsText, PhaseVoice)
       IN /\ WorkerReply(w, id, ok, d)
          /\ fs' = IF ok THEN WriteFile(fs, pt.audioPath, d) ELSE fs
          /\ stats' = IF ok THEN [stats EXCEPT !.overwritten = @ \cup Overwritten({pt.audioPath})]
                      ELSE stats
  /\ UNCHANGED <<cards, config, pc, phase, audioPlans, uncachedMain, uncachedCode, planIdx,
                 segments, gapSlidePath, rendering, clipDescs, concatList, runNo, prev, edit>>
  /\ UNCHANGED rcVars
  /\ UNCHANGED appVars

\* A synthesize promise rejected: Promise.all rejects and runPipeline throws.
SynthFailed ==
  /\ pc = "synth"
  /\ \E j \in 1..Len(promise) : promise[j].st = "rejected"
  /\ pc' = "failed"
  /\ UNCHANGED <<cards, config, fs, phase, audioPlans, uncachedMain, uncachedCode, planIdx,
                 segments, gapSlidePath, rendering, clipDescs, concatList, stats, runNo, prev, edit>>
  /\ UNCHANGED <<rcVars, poolVars>>
  /\ UNCHANGED appVars

\* TTSPool.terminate(): SIGTERM to every worker of states, wait for the exits.
PoolTerminate ==
  /\ proc' = [w \in 1..size |->
               IF \E k \in 1..Len(states) : states[k].proc = w THEN "exited" ELSE proc[w]]
  /\ UNCHANGED <<size, states, queue, pending, nextId, promise, workerJobs, outbox,
                 handled, initOutcome>>

\* Every synthesize promise resolved: the pool is terminated and the run
\* goes on to the code voice, or to Phase 2C.
EndPool ==
  /\ pc = "synth"
  /\ \A j \in 1..Len(promise) : promise[j].st = "resolved"
  /\ PoolTerminate
  /\ pc' = IF phase = "main" THEN "pool" ELSE "concatAudio"
  /\ phase' = "code"
  /\ UNCHANGED <<cards, config, fs, audioPlans, uncachedMain, uncachedCode, planIdx, segments,
                 gapSlidePath, rendering, clipDescs, concatList, stats, runNo, prev, edit>>
  /\ UNCHANGED rcVars
  /\ UNCHANGED appVars

\* Position of the next plan after planIdx that Phase 2C must concatenate
\* (multi-part and final WAV not cached), 0 if none.
NextConcat ==
  LET need == {k \in (planIdx + 1)..Len(audioPlans) :
                 audioPlans[k].isMultiPart /\ ~isCached(audioPlans[k].finalAudioPath, config.force)}
  IN IF need = {} THEN 0 ELSE CHOOSE k \in need : \A j \in need : k <= j

RECURSIVE SumDur(_)
SumDur(paths) ==
  IF paths = <<>> THEN 0 ELSE getAudioDuration(Head(paths)) + SumDur(Tail(paths))

Reverse(seq) == [j \in 1..Len(seq) |-> seq[Len(seq) + 1 - j]]

ConcatInputs_reversed(plan) ==
  Reverse([j \in 1..Len(plan.parts) |-> plan.parts[j].audioPath])

\* plan.parts.map(p => p.audioPath): the inputs of concatenateAudioFiles,
\* which writes them to the list file (or passes the only one) in this order.
ConcatInputs(plan) == [j \in 1..Len(plan.parts) |-> plan.parts[j].audioPath]

\* Phase 2C: the loop runs to the next plan that needs concatenation and
\* awaits concatenateAudioFiles (ffmpeg) for it; ffmpeg rejects when an
\* input is missing or the encoder fails.  Past the last plan the loop ends.
ConcatAudio ==
  /\ pc = "concatAudio"
  /\ LET k == NextConcat IN
     IF k = 0
     THEN /\ pc' = "segments"
          /\ UNCHANGED <<fs, planIdx, stats, partsList>>
     ELSE LET plan == audioPlans[k]
              inputs == ConcatInputs(plan)
          IN /\ planIdx' = k
             /\ partsList' = inputs
             /\ \E ok \in BOOLEAN :
                  IF ok /\ \A j \in 1..Len(inputs) : Exists(inputs[j])
                  THEN /\ fs' = WriteFile(fs, plan.finalAudioPath, SumDur(inputs))
                       /\ stats' = [stats EXCEPT !.concat = @ + 1,
                                                 !.overwritten = @ \cup Overwritten({plan.finalAudioPath})]
                       /\ pc' = "concatAudio"
                  ELSE /\ fs' = fs
                       /\ stats' = [stats EXCEPT !.concat = @ + 1]
                       /\ pc' = "failed"
  /\ UNCHANGED <<cards, config, phase, audioPlans, uncachedMain, uncachedCode, segments,
                 gapSlidePath, rendering, clipDescs, concatList, runNo, prev, edit>>
  /\ UNCHANGED <<rcVars, poolVars>>
  /\ UNCHANGED <<argv, yamlConfig, batch, state, refs, srv, ff>>

\* The Segment pushed for one plan (Phase 2D).
SegmentOf(plan) ==
  LET duration == getAudioDuration(plan.finalAudioPath) IN
  [type |-> IF plan.isQuestion THEN "question" ELSE "answer",
   text |-> plan.rawText,
   cardIndex |-> plan.cardIndex,
   totalCards |-> Len(cards),
   questionSlug |-> slug(cards[plan.cardIndex + 1].question),
   audioPath |-> plan.finalAudioPath,
   imagePath |-> "",
   audioDuration |-> duration,
   totalDuration |-> duration + plan.delay]

\* Phase 2D: one Segment per plan with the measured duration of its final
\* WAV; getAudioDuration rejects when the file is missing, and ffprobe may
\* or may not accept a truncated file.
BuildSegments ==
  /\ pc = "segments"
  /\ \E probeOk \in BOOLEAN :
       IF /\ \A k \in 1..Len(audioPlans) : Exists(audioPlans[k].finalAudioPath)
          /\ (probeOk \/ \A f \in fs : ~f.partial)
       THEN /\ segments' = [k \in 1..Len(audioPlans) |-> SegmentOf(audioPlans[k])]
            /\ pc' = "cleanup"
       ELSE /\ segments' = segments
            /\ pc' = "failed"
  /\ UNCHANGED <<cards, config, fs, phase, audioPlans, uncachedMain, uncachedCode, planIdx,
                 gapSlidePath, rendering, clipDescs, concatList, stats, runNo, prev, edit>>
  /\ UNCHANGED <<rcVars, poolVars>>
  /\ UNCHANGED appVars

\* The prefix given to removeStale for a plan.
StalePrefix(plan) == (IF plan.isQuestion THEN "q_" ELSE "a_") \o ToString(plan.cardIndex)

\* removeStale for the single-part plans k..Len(plans), applied to the
\* files in turn: the files left, and whether a call threw.
RECURSIVE CleanAll(_, _, _)
CleanAll(r, k, failing) ==
  IF k > Len(audioPlans) THEN r
  ELSE LET plan == audioPlans[k]
           one == removeStale(r.files, config.tempDir, StalePrefix(plan), "wav",
                              plan.finalAudioPath, failing)
       IN CleanAll(IF ~plan.isMultiPart
                   THEN [files |-> one.files, threw |-> r.threw \/ one.threw]
                   ELSE r,
                   k + 1, failing)

\* The paths some removeStale call of this run will try to unlink.
StaleCandidates ==
  {f.path : f \in fs \ CleanAll([files |-> fs, threw |-> FALSE], 1, {}).files}

\* The unlink failures tried: none, or the unlink of one candidate.
FailingSets == {{}} \cup {{q} : q \in StaleCandidates}

\* Stale-audio cleanup for every single-part plan; unlink may fail for a
\* file (EACCES, EBUSY, ...).
CleanupStale ==
  /\ pc = "cleanup"
  /\ \E failing \in FailingSets :
       LET r == CleanAll([files |-> fs, threw |-> FALSE], 1, failing)
       IN /\ fs' = r.files
          /\ pc' = IF r.threw THEN "failed" ELSE "slides"
  /\ UNCHANGED <<cards, config, phase, audioPlans, uncachedMain, uncachedCode, planIdx, segments,
                 gapSlidePath, rendering, clipDescs, concatList, stats, runNo, prev, edit>>
  /\ UNCHANGED <<rcVars, poolVars>>
  /\ UNCHANGED appVars

\* Stage 3 start: slide paths are assigned, then every slide that is not
\* cached (segment slides and the gap slide) gets a renderSlide call.
StartRender ==
  /\ pc = "slides"
  /\ LET gap == cachedPath(config.tempDir, "slide_gap", gapSlideHash(config, Len(cards)), "png")
         segs == [k \in 1..Len(segments) |->
                    [segments[k] EXCEPT !.imagePath = SlidePath(segments[k], k - 1, config)]]
         todo == {p \in {segs[k].imagePath : k \in 1..Len(segs)} \cup {gap} :
                    ~isCached(p, config.force)}
     IN /\ gapSlidePath' = gap
        /\ segments' = segs
        /\ rendering' = todo
        /\ stats' = [stats EXCEPT !.render = @ + Cardinality(todo)]
  /\ pc' = "render"
  /\ UNCHANGED <<cards, config, fs, phase, audioPlans, uncachedMain, uncachedCode, planIdx,
                 clipDescs, concatList, runNo, prev, edit>>
  /\ UNCHANGED <<rcVars, poolVars>>
  /\ UNCHANGED appVars

\* A renderSlide call completes: the PNG is written, or the renderer
\* throws, which rejects Promise.all.
RenderDone ==
  /\ pc = "render"
  /\ \E p \in rendering, ok \in BOOLEAN :
       /\ fs' = IF ok THEN WriteFile(fs, p, 0) ELSE fs
       /\ stats' = IF ok THEN [stats EXCEPT !.overwritten = @ \cup Overwritten({p})] ELSE stats
       /\ rendering' = IF ok THEN rendering \ {p} ELSE rendering
       /\ pc' = IF ok THEN pc ELSE "failed"
  /\ UNCHANGED <<cards, config, phase, audioPlans, uncachedMain, uncachedCode, planIdx,
                 segments, gapSlidePath, clipDescs, concatList, runNo, prev, edit>>
  /\ UNCHANGED <<rcVars, poolVars>>
  /\ UNCHANGED appVars

\* Clip tasks of descs whose thunk returns at once (clip cached).
CachedClips_none(descs) == {}

CachedClips(descs) == {k \in 1..Len(descs) : isCached(descs[k].path, config.force)}

\* Stage 4 start: the descriptor list is built in segment order and
\* runConcurrent is called on one task per descriptor.
StartEncode ==
  /\ pc = "render" /\ rendering = {}
  /\ LET descs == ClipDescs(segments, 0, config, Len(cards))
         w == WorkerCount(Len(descs), ClipConcurrency)
     IN /\ clipDescs' = descs
        /\ RCCall(Len(descs), ClipConcurrency, CachedClips(descs))
        /\ stats' = [stats EXCEPT !.encode = @ + Cardinality((1..w) \ CachedClips(descs))]
  /\ pc' = "encode"
  /\ UNCHANGED <<cards, config, fs, phase, audioPlans, uncachedMain, uncachedCode, planIdx,
                 segments, gapSlidePath, rendering, concatList, runNo, prev, edit>>
  /\ UNCHANGED poolVars
  /\ UNCHANGED appVars

\* An encode (createSegmentClip / createSilentClip) ends: the clip is
\* written, or ffmpeg fails.
EncodeSettle ==
  /\ pc = "encode"
  /\ \E i \in 1..Len(tasks), ok \in BOOLEAN :
       /\ RCSettle(i, ok, Undefined)
       /\ fs' = IF ok THEN WriteFile(fs, clipDescs[i].path, 0) ELSE fs
       /\ stats' = IF ok THEN [stats EXCEPT !.overwritten = @ \cup Overwritten({clipDescs[i].path})]
                   ELSE stats
  /\ UNCHANGED <<cards, config, pc, phase, audioPlans, uncachedMain, uncachedCode, planIdx,
                 segments, gapSlidePath, rendering, clipDescs, concatList, runNo, prev, edit>>
  /\ UNCHANGED poolVars
  /\ UNCHANGED appVars

\* A runConcurrent worker resumes and takes the next clip task, if any.
EncodeResume ==
  /\ pc = "encode"
  /\ \E w \in 1..Len(rcWorker) :
       /\ RCResume(w, CachedClips(clipDescs))
       /\ stats' = IF next' > next /\ tasks'[next'] = "running"
                   THEN [stats EXCEPT !.encode = @ + 1] ELSE stats
  /\ UNCHANGED <<cards, config, fs, pc, phase, audioPlans, uncachedMain, uncachedCode, planIdx,
                 segments, gapSlidePath, rendering, clipDescs, concatList, runNo, prev, edit>>
  /\ UNCHANGED poolVars
  /\ UNCHANGED appVars

\* runConcurrent rejected: runPipeline throws before concatenateClips.
EncodeFailed ==
  /\ pc = "encode" /\ rcOutcome = "rejected"
  /\ pc' = "failed"
  /\ UNCHANGED <<cards, config, fs, phase, audioPlans, uncachedMain, uncachedCode, planIdx,
                 segments, gapSlidePath, rendering, clipDescs, concatList, stats, runNo, prev, edit>>
  /\ UNCHANGED <<rcVars, poolVars>>
  /\ UNCHANGED appVars

ClipPaths_completionOrder(descs) ==
  IF reordered
  THEN [k \in 1..Len(descs) |-> descs[Len(descs) + 1 - k].path]
  ELSE [k \in 1..Len(descs) |-> descs[k].path]

\* const clipPaths = clipDescs.map(d => d.path)
ClipPaths(descs) == [k \in 1..Len(descs) |-> descs[k].path]

\* concatContent: one line file '<path>' per clip path
ConcatContent(paths) == [k \in 1..Len(paths) |-> "file '" \o paths[k] \o "'"]

\* runConcurrent resolved: concatenateClips is called with the clip paths
\* and writes concat_list.txt before starting ffmpeg.
StartConcat ==
  /\ pc = "encode"
  /\ RCReturn
  /\ concatList' = ConcatContent(ClipPaths(clipDescs))
  /\ fs' = WriteFile(fs, ConcatListPath(config.tempDir), 0)
  /\ stats' = [stats EXCEPT !.overwritten = @ \cup Overwritten({ConcatListPath(config.tempDir)})]
  /\ pc' = "concat"
  /\ UNCHANGED <<cards, config, phase, audioPlans, uncachedMain, uncachedCode, planIdx,
                 segments, gapSlidePath, rendering, clipDescs, runNo, prev, edit>>
  /\ UNCHANGED poolVars
  /\ UNCHANGED appVars

\* The final ffmpeg concat ends or fails.
FinishConcat ==
  /\ pc = "concat"
  /\ \E ok \in BOOLEAN :
       IF ok
       THEN /\ pc' = "done"
            /\ stats' = [stats EXCEPT !.overwritten = @ \cup Overwritten({OutputPath})]
            /\ fs' = WriteFile(fs, OutputPath, 0)
       ELSE /\ pc' = "failed"
            /\ UNCHANGED <<stats, fs>>
  /\ UNCHANGED <<cards, config, phase, audioPlans, uncachedMain, uncachedCode, planIdx,
                 segments, gapSlidePath, rendering, clipDescs, concatList, runNo, prev, edit>>
  /\ UNCHANGED <<rcVars, poolVars>>
  /\ UNCHANGED appVars

\* ---------------------------------------------------------------------
\* Two consecutive runs on the same tempDir
\* ---------------------------------------------------------------------
Questions(i) == IF i % 2 = 1 THEN <<"What is JSON?">> ELSE <<"Why?">>

Prose1 == <<"JSON maps">>
Prose2 == <<"Jason maps">>
Mixed1 == <<"Use it", "'''js", "x=1", "'''", "Done">>
Mixed2 == <<"Use them", "'''js", "x=1", "'''", "Done">>
Mixed3 == <<"Use it", "'''js", "a:b", "'''", "Done">>
Mixed4 == <<"Use it", "'''js", "x=1", "'''", "Bye">>

\* Answers a card starts with, and answers an edit can put in its place.
InitAnswers == {Prose1, Mixed1}
Answers == {Prose1, Prose2, Mixed1, Mixed2, Mixed3, Mixed4}

CardLists ==
  UNION {{cs \in [1..n -> [question : {Questions(1), Questions(2)}, answer : InitAnswers]] :
            \A i \in 1..n : cs[i].question = Questions(i)} : n \in 1..MaxCards}

\* The fields of config an edit can change, with the new value.
ConfigEdits ==
  {"fontSize", "backgroundColor", "questionColor", "answerColor", "textColor",
   "voice", "codeVoice", "cardGap", "force", "skipTTS", "force+skipTTS"}

EditConfig(cfg, field) ==
  CASE field = "fontSize" -> [cfg EXCEPT !.fontSize = 60]
    [] field = "backgroundColor" -> [cfg EXCEPT !.backgroundColor = "#000000"]
    [] field = "questionColor" -> [cfg EXCEPT !.questionColor = "#111111"]
    [] field = "answerColor" -> [cfg EXCEPT !.answerColor = "#222222"]
    [] field = "textColor" -> [cfg EXCEPT !.textColor = "#eeeeee"]
    [] field = "voice" -> [cfg EXCEPT !.voice = "am_adam"]
    [] field = "codeVoice" -> [cfg EXCEPT !.codeVoice = "am_adam"]
    [] field = "cardGap" -> [cfg EXCEPT !.cardGap = 0]
    [] field = "force" -> [cfg EXCEPT !.force = TRUE]
    [] field = "skipTTS" -> [cfg EXCEPT !.skipTTS = TRUE]
    [] field = "force+skipTTS" -> [cfg EXCEPT !.force = TRUE, !.skipTTS = TRUE]

Snapshot ==
  [ok |-> pc = "done", cards |-> cards, config |-> config, audioPlans |-> audioPlans,
   segments |-> segments, gapSlidePath |-> gapSlidePath, clipDescs |-> clipDescs]

\* runPipeline is called again on the same tempDir after the first run
\* ended (or was killed).
Rerun(e, newCards, newConfig) ==
  /\ pc \in {"done", "killed"} /\ runNo = 1
  /\ prev' = Snapshot
  /\ edit' = e
  /\ cards' = newCards
  /\ config' = newConfig
  /\ runNo' = 2
  /\ pc' = "idle"
  /\ phase' = "main"
  /\ audioPlans' = <<>> /\ uncachedMain' = <<>> /\ uncachedCode' = <<>> /\ planIdx' = 0
  /\ segments' = <<>> /\ gapSlidePath' = "" /\ rendering' = {} /\ clipDescs' = <<>>
  /\ concatList' = <<>> /\ stats' = NoStats
  /\ UNCHANGED fs
  /\ tasks' = <<>> /\ limit' = 0 /\ results' = <<>> /\ next' = 0
  /\ rcWorker' = <<>> /\ rcOutcome' = "idle" /\ taskVal' = <<>> /\ started' = <<>>
  /\ reordered' = FALSE
  /\ size' = 0 /\ states' = <<>> /\ queue' = <<>> /\ pending' = {} /\ nextId' = 0
  /\ promise' = <<>> /\ proc' = <<>> /\ workerJobs' = <<>> /\ outbox' = <<>>
  /\ handled' = <<>> /\ initOutcome' = "none"
  /\ UNCHANGED appVars

RerunUnchanged == pc = "done" /\ Rerun(NoEdit, cards, config)

RerunEditedAnswer ==
  \E i \in 1..Len(cards), a \in Answers :
    /\ pc = "done"
    /\ a # cards[i].answer
    /\ Rerun([kind |-> "answer", card |-> i - 1, field |-> ""],
             [cards EXCEPT ![i].answer = a], config)

RerunEditedConfig ==
  \E f \in ConfigEdits :
    pc = "done" /\ Rerun([kind |-> "config", card |-> 0, field |-> f], cards, EditConfig(config, f))

InitPipe ==
  /\ RCIdle /\ PoolIdle /\ AppIdle
  /\ cards \in CardLists
  /\ config = DefaultConfig /\ fs = {} /\ pc = "idle" /\ phase = "main"
  /\ audioPlans = <<>> /\ uncachedMain = <<>> /\ uncachedCode = <<>> /\ planIdx = 0
  /\ segments = <<>> /\ gapSlidePath = "" /\ rendering = {} /\ clipDescs = <<>>
  /\ concatList = <<>> /\ stats = NoStats /\ runNo = 1 /\ prev = NoRun /\ edit = NoEdit

NextPipe ==
  \/ StartRun \/ BeginPool \/ PipeLoadWorker \/ PipeOnMessage \/ InitFailed
  \/ SubmitJobs \/ PipeReplyWorker \/ SynthFailed \/ EndPool
  \/ ConcatAudio \/ BuildSegments \/ CleanupStale
  \/ StartRender \/ RenderDone
  \/ StartEncode \/ EncodeSettle \/ EncodeResume \/ EncodeFailed
  \/ StartConcat \/ FinishConcat
  \/ RerunUnchanged \/ RerunEditedAnswer \/ RerunEditedConfig

SpecPipe == InitPipe /\ [][NextPipe]_vars

\* ---- specification of a run that is killed and started again ----

\* Output paths of the writers that are running.
InProgressPaths ==
  CASE pc = "synth" ->
         {PhaseParts[id + 1].audioPath : id \in UNION {workerJobs[w] : w \in 1..size}}
    [] pc = "concatAudio" ->
         IF NextConcat = 0 THEN {} ELSE {audioPlans[NextConcat].finalAudioPath}
    [] pc = "render" -> rendering
    [] pc = "encode" -> {clipDescs[i].path : i \in InFlight}
    [] pc = "concat" -> {OutputPath}
    [] OTHER -> {}

\* The process is killed during the first run: every running writer (TTS
\* worker, ffmpeg, renderer) stops, and each of them may already have
\* created its output file, which writers open at the final path.
Kill ==
  /\ runNo = 1
  /\ pc \in {"pool", "init", "synth", "concatAudio", "segments", "cleanup", "slides",
             "render", "encode", "concat"}
  /\ \E ps \in SUBSET InProgressPaths :
       fs' = {f \in fs : f.path \notin ps}
               \cup {[path |-> q, dur |-> 0, partial |-> TRUE] : q \in ps}
  /\ pc' = "killed"
  /\ UNCHANGED <<cards, config, phase, audioPlans, uncachedMain, uncachedCode, planIdx,
                 segments, gapSlidePath, rendering, clipDescs, concatList, stats, runNo, prev, edit>>
  /\ UNCHANGED <<rcVars, poolVars>>
  /\ UNCHANGED appVars

\* runPipeline is called again with the same input after the kill.
Resume ==
  /\ pc = "killed"
  /\ Rerun([kind |-> "resume", card |-> 0, field |-> ""], cards, config)

NextKill ==
  \/ StartRun \/ BeginPool \/ PipeLoadWorker \/ PipeOnMessage \/ InitFailed
  \/ SubmitJobs \/ PipeReplyWorker \/ SynthFailed \/ EndPool
  \/ ConcatAudio \/ BuildSegments \/ CleanupStale
  \/ StartRender \/ RenderDone
  \/ StartEncode \/ EncodeSettle \/ EncodeResume \/ EncodeFailed
  \/ StartConcat \/ FinishConcat
  \/ Kill \/ Resume

\* One card is enough for every writer to be interrupted.
InitKill == InitPipe /\ Len(cards) = 1

SpecKill == InitKill /\ [][NextKill]_vars

\* ---- specification of the audio stage on a long deck, run twice ----

\* Card indices (0-based) whose answer varies in a long deck, so that one
\* index is a decimal prefix of the other.
VaryCards == {1, StaleCards - 1}

\* Decks of StaleCards cards.
StaleDecks ==
  {cs \in [1..StaleCards -> [question : {Questions(1), Questions(2)}, answer : InitAnswers]] :
     \A i \in 1..StaleCards :
       /\ cs[i].question = Questions(i)
       /\ (i - 1) \notin VaryCards => cs[i].answer = Prose1}

\* A worker finishes a job successfully (a failed job ends the run before
\* the cleanup).
PipeReplyWorkerOk ==
  /\ pc = "synth"
  /\ \E w \in 1..size, id \in 0..(Len(PhaseParts) - 1) :
       LET pt == PhaseParts[id + 1]
           d == SpeechDuration(pt.ttsText, PhaseVoice)
       IN /\ WorkerReply(w, id, TRUE, d)
          /\ fs' = WriteFile(fs, pt.audioPath, d)
          /\ stats' = [stats EXCEPT !.overwritten = @ \cup Overwritten({pt.audioPath})]
  /\ UNCHANGED <<cards, config, pc, phase, audioPlans, uncachedMain, uncachedCode, planIdx,
                 segments, gapSlidePath, rendering, clipDescs, concatList, runNo, prev, edit>>
  /\ UNCHANGED rcVars
  /\ UNCHANGED appVars

\* The first run is stopped when its audio stage is over.
KillAfterAudio == pc = "slides" /\ Kill

\* runPipeline is called again after the answer of one card was edited.
ResumeEditedAnswer ==
  \E i \in VaryCards, a \in Answers :
    /\ pc = "killed"
    /\ a # cards[i + 1].answer
    /\ Rerun([kind |-> "answer", card |-> i, field |-> ""],
             [cards EXCEPT ![i + 1].answer = a], config)

\* runPipeline is called again with another main voice (--voice).
ResumeEditedVoice ==
  /\ pc = "killed"
  /\ Rerun([kind |-> "config", card |-> 0, field |-> "voice"], cards, EditConfig(config, "voice"))

\* runPipeline is called again in update mode (skipTTS) after the answer of
\* one card was edited.
ResumeEditedAnswerUpdate ==
  \E i \in VaryCards, a \in Answers :
    /\ pc = "killed"
    /\ a # cards[i + 1].answer
    /\ Rerun([kind |-> "answer", card |-> i, field |-> "skipTTS"],
             [cards EXCEPT ![i + 1].answer = a], [config EXCEPT !.skipTTS = TRUE])

InitStale ==
  /\ RCIdle /\ PoolIdle /\ AppIdle
  /\ cards \in StaleDecks
  /\ config = DefaultConfig /\ fs = {} /\ pc = "idle" /\ phase = "main"
  /\ audioPlans = <<>> /\ uncachedMain = <<>> /\ uncachedCode = <<>> /\ planIdx = 0
  /\ segments = <<>> /\ gapSlidePath = "" /\ rendering = {} /\ clipDescs = <<>>
  /\ concatList = <<>> /\ stats = NoStats /\ runNo = 1 /\ prev = NoRun /\ edit = NoEdit

NextStale ==
  \/ StartRun \/ BeginPool \/ PipeLoadWorker \/ PipeOnMessage \/ InitFailed
  \/ SubmitJobs \/ PipeReplyWorkerOk \/ EndPool
  \/ ConcatAudio \/ BuildSegments \/ CleanupStale
  \/ KillAfterAudio \/ ResumeEditedAnswer \/ ResumeEditedVoice \/ ResumeEditedAnswerUpdate

SpecStale == InitStale /\ [][NextStale]_vars

\* ---- specification of the batch command ----

\* The YAML files a directory can hold, as readdirSync(...).sort() lists them.
FileNames == [k \in 1..MaxFiles |-> "deck" \o ToString(k) \o ".yaml"]

\* yamlData.questions of a file: one card; files with an even number have
\* a code block in the answer.
FileDeck(file) ==
  <<[question |-> Questions(1),
     answer |-> IF \E k \in 1..MaxFiles : FileNames[k] = file /\ k % 2 = 0 THEN Mixed1 ELSE Prose1]>>

\* buildConfig(inputPath, fileOpts): the temp directory is named after the file.
FileConfig(file, force) ==
  [DefaultConfig EXCEPT !.tempDir = "tmp/" \o file, !.force = force]

\* The catch of the loop body: the failure is recorded and the loop goes
\* on with the next file.
CatchInLoop_abortsBatch(b) == [b EXCEPT !.fi = Len(b.yamlFiles)]

CatchInLoop(b) ==
  [b EXCEPT !.results = Append(@, [file |-> b.yamlFiles[b.fi + 1], status |-> "FAILED"]),
            !.fi = @ + 1]

\* results.push({ file, status, ... }) at the end of an iteration.
Recorded(b, status) ==
  [b EXCEPT !.results = Append(@, [file |-> b.yamlFiles[b.fi + 1], status |-> status]),
            !.fi = @ + 1]

\* One iteration of the loop up to the call of runPipeline: buildConfig
\* (which creates directories and may throw), the skip of a file whose
\* video exists, or the start of the file's run in its own temp directory.
BatchNextFile ==
  /\ pc = "batch" /\ batch.fi < Len(batch.yamlFiles)
  /\ LET file == batch.yamlFiles[batch.fi + 1] IN
     \E mkdirOk \in BOOLEAN :
       IF ~mkdirOk
       THEN /\ batch' = CatchInLoop(batch)
            /\ UNCHANGED <<cards, config, pc, fs>>
       ELSE IF ~batch.force /\ file \in batch.existing
       THEN /\ batch' = Recorded(batch, "SKIPPED")
            /\ UNCHANGED <<cards, config, pc, fs>>
       ELSE /\ cards' = FileDeck(file)
            /\ config' = FileConfig(file, batch.force)
            /\ pc' = "idle"
            /\ fs' = {}
            /\ UNCHANGED batch
  /\ phase' = "main"
  /\ audioPlans' = <<>> /\ uncachedMain' = <<>> /\ uncachedCode' = <<>> /\ planIdx' = 0
  /\ segments' = <<>> /\ gapSlidePath' = "" /\ rendering' = {} /\ clipDescs' = <<>>
  /\ concatList' = <<>> /\ stats' = NoStats
  /\ tasks' = <<>> /\ limit' = 0 /\ results' = <<>> /\ next' = 0
  /\ rcWorker' = <<>> /\ rcOutcome' = "idle" /\ taskVal' = <<>> /\ started' = <<>>
  /\ reordered' = FALSE
  /\ size' = 0 /\ states' = <<>> /\ queue' = <<>> /\ pending' = {} /\ nextId' = 0
  /\ promise' = <<>> /\ proc' = <<>> /\ workerJobs' = <<>> /\ outbox' = <<>>
  /\ handled' = <<>> /\ initOutcome' = "none"
  /\ UNCHANGED <<runNo, prev, edit, argv, yamlConfig, state, refs, partsList, srv, ff>>

\* await runPipeline(config) returned: the file is recorded as OK.
BatchFileDone ==
  /\ pc = "done"
  /\ batch' = Recorded(batch, "OK")
  /\ pc' = "batch"
  /\ UNCHANGED <<cards, config, fs, phase, audioPlans, uncachedMain, uncachedCode, planIdx,
                 segments, gapSlidePath, rendering, clipDescs, concatList, stats, runNo, prev, edit>>
  /\ UNCHANGED <<rcVars, poolVars, argv, yamlConfig, state, refs, partsList, srv, ff>>

\* await runPipeline(config) threw: the catch of the loop body.
BatchFileFailed ==
  /\ pc = "failed"
  /\ batch' = CatchInLoop(batch)
  /\ pc' = "batch"
  /\ UNCHANGED <<cards, config, fs, phase, audioPlans, uncachedMain, uncachedCode, planIdx,
                 segments, gapSlidePath, rendering, clipDescs, concatList, stats, runNo, prev, edit>>
  /\ UNCHANGED <<rcVars, poolVars, argv, yamlConfig, state, refs, partsList, srv, ff>>

\* Past the last file: the summary is printed and the command ends.
BatchSummary ==
  /\ pc = "batch" /\ batch.fi >= Len(batch.yamlFiles)
  /\ pc' = "exit"
  /\ UNCHANGED <<cards, config, fs, phase, audioPlans, uncachedMain, uncachedCode, planIdx,
                 segments, gapSlidePath, rendering, clipDescs, concatList, stats, runNo, prev, edit>>
  /\ UNCHANGED <<rcVars, poolVars, appVars>>

InitBatch ==
  /\ RCIdle /\ PoolIdle
  /\ argv = NoArgv /\ yamlConfig = NoYaml /\ state = initialState /\ ExtraIdle
  /\ \E n \in 1..MaxFiles, ex \in SUBSET (1..MaxFiles), force \in BOOLEAN :
       /\ \A k \in ex : k <= n
       /\ batch = [yamlFiles |-> SubSeq(FileNames, 1, n), fi |-> 0, results |-> <<>>,
                   existing |-> {FileNames[k] : k \in ex}, force |-> force]
  /\ cards = <<>> /\ config = DefaultConfig /\ fs = {} /\ pc = "batch" /\ phase = "main"
  /\ audioPlans = <<>> /\ uncachedMain = <<>> /\ uncachedCode = <<>> /\ planIdx = 0
  /\ segments = <<>> /\ gapSlidePath = "" /\ rendering = {} /\ clipDescs = <<>>
  /\ concatList = <<>> /\ stats = NoStats /\ runNo = 1 /\ prev = NoRun /\ edit = NoEdit

NextBatch ==
  \/ BatchNextFile \/ BatchFileDone \/ BatchFileFailed \/ BatchSummary
  \/ StartRun \/ BeginPool \/ PipeLoadWorker \/ PipeOnMessage \/ InitFailed
  \/ SubmitJobs \/ PipeReplyWorker \/ SynthFailed \/ EndPool
  \/ ConcatAudio \/ BuildSegments \/ CleanupStale
  \/ StartRender \/ RenderDone
  \/ StartEncode \/ EncodeSettle \/ EncodeResume \/ EncodeFailed
  \/ StartConcat \/ FinishConcat

SpecBatch == InitBatch /\ [][NextBatch]_vars

\* ---- specification of the generate command up to the Segment list ----

\* Values an option is given on the command line.
ArgvValues ==
  [voice |-> {"af_heart", "am_adam"}, codeVoice |-> {"am_echo", "am_adam"},
   questionDelay |-> {"2", "5", "-1"}, answerDelay |-> {"3", "1"}]

\* Values a key has in the config section of the YAML file.
YamlValues ==
  [voice |-> {"", "bf_emma"}, codeVoice |-> {"bf_emma"},
   questionDelay |-> {0, 1, 0 - 1}, answerDelay |-> {1}]

\* Command lines with at most one of the four options.
ArgvSets ==
  {NoArgv} \cup UNION {{[NoArgv EXCEPT ![f] = v] : v \in ArgvValues[f]} : f \in DOMAIN ArgvValues}

\* Config sections with at most one of the four keys.
YamlConfigs ==
  {NoYaml} \cup UNION {{[k \in {f} |-> v] : v \in YamlValues[f]} : f \in DOMAIN YamlValues}

\* The generate command's action: buildConfig, then runPipeline(config).
Generate ==
  /\ pc = "cli"
  /\ config' = buildConfig(sharedOptions(argv))
  /\ pc' = "idle"
  /\ UNCHANGED <<cards, fs, phase, audioPlans, uncachedMain, uncachedCode, planIdx, segments,
                 gapSlidePath, rendering, clipDescs, concatList, stats, runNo, prev, edit>>
  /\ UNCHANGED <<rcVars, poolVars, appVars>>

InitCli ==
  /\ RCIdle /\ PoolIdle
  /\ argv \in ArgvSets /\ yamlConfig \in YamlConfigs
  /\ batch = NoBatch /\ state = initialState /\ ExtraIdle
  /\ cards \in {cs \in CardLists : Len(cs) = 1}
  /\ config = DefaultConfig /\ fs = {} /\ pc = "cli" /\ phase = "main"
  /\ audioPlans = <<>> /\ uncachedMain = <<>> /\ uncachedCode = <<>> /\ planIdx = 0
  /\ segments = <<>> /\ gapSlidePath = "" /\ rendering = {} /\ clipDescs = <<>>
  /\ concatList = <<>> /\ stats = NoStats /\ runNo = 1 /\ prev = NoRun /\ edit = NoEdit

NextCli ==
  \/ Generate
  \/ StartRun \/ BeginPool \/ PipeLoadWorker \/ PipeOnMessage \/ InitFailed
  \/ SubmitJobs \/ PipeReplyWorkerOk \/ EndPool
  \/ ConcatAudio \/ BuildSegments

SpecCli == InitCli /\ [][NextCli]_vars

\* ---- specification of runConcurrent on arbitrary task lists ----
InitRC == RCIdle /\ PoolIdle /\ PipeIdle /\ AppIdle

CallRC ==
  /\ \E n \in 0..MaxTasks, lim \in 0..MaxLimit : RCCall(n, lim, {})
  /\ UNCHANGED <<poolVars, pipeVars>>
  /\ UNCHANGED appVars
SettleRC ==
  /\ \E i \in 1..Len(tasks), ok \in BOOLEAN, v \in Values : RCSettle(i, ok, v)
  /\ UNCHANGED <<poolVars, pipeVars>>
  /\ UNCHANGED appVars
ResumeRC ==
  /\ \E w \in 1..Len(rcWorker) : RCResume(w, {})
  /\ UNCHANGED <<poolVars, pipeVars>>
  /\ UNCHANGED appVars
ReturnRC ==
  /\ RCReturn
  /\ UNCHANGED <<poolVars, pipeVars>>
  /\ UNCHANGED appVars

NextRC == CallRC \/ SettleRC \/ ResumeRC \/ ReturnRC

SpecRC == InitRC /\ [][NextRC]_vars

\* ---- specification of one TTSPool and its worker processes ----
InitPool == RCIdle /\ PoolIdle /\ PipeIdle /\ AppIdle

NewPool ==
  /\ \E k \in 1..MaxPool : PoolNew(k)
  /\ UNCHANGED <<rcVars, pipeVars>>
  /\ UNCHANGED appVars
InitWorkers ==
  /\ PoolInit
  /\ UNCHANGED <<rcVars, pipeVars>>
  /\ UNCHANGED appVars
LoadWorker ==
  /\ \E w \in 1..size, ok \in BOOLEAN : WorkerLoad(w, ok)
  /\ UNCHANGED <<rcVars, pipeVars>>
  /\ UNCHANGED appVars
SynthesizeJob ==
  /\ nextId < MaxJobs
  /\ Synthesize
  /\ UNCHANGED <<rcVars, pipeVars>>
  /\ UNCHANGED appVars
ReplyWorker ==
  /\ \E w \in 1..size, id \in 0..(MaxJobs - 1), ok \in BOOLEAN, d \in Durations :
        /\ (~ok => d = 1)
        /\ WorkerReply(w, id, ok, d)
  /\ UNCHANGED <<rcVars, pipeVars>>
  /\ UNCHANGED appVars
OnMessage ==
  /\ \E w \in 1..size : PoolOnMessage(w)
  /\ UNCHANGED <<rcVars, pipeVars>>
  /\ UNCHANGED appVars
NextPool == NewPool \/ InitWorkers \/ LoadWorker \/ SynthesizeJob \/ ReplyWorker \/ OnMessage

SpecPool == InitPool /\ [][NextPool]_vars

\* ---- specification of a TTSPool as runPipeline drives it: ----
\* ---- new, await init, synthesize for every part, terminate ----

\* No worker was sent SIGTERM yet (the source does not say what proc.send
\* does on the closed channel of an exited worker).
NotTerminated == \A w \in 1..size : proc[w] # "exited"

SynthesizeJobLife ==
  /\ nextId < LifeJobs
  /\ initOutcome = "resolved" /\ NotTerminated
  /\ Synthesize
  /\ UNCHANGED <<rcVars, pipeVars>>
  /\ UNCHANGED appVars

\* terminate() is called after init() has returned and every promise of
\* synthesize has settled.
TerminatePool ==
  /\ initOutcome = "resolved" /\ NotTerminated
  /\ queue = <<>> /\ pending = {}
  /\ PoolTerminate
  /\ UNCHANGED <<rcVars, pipeVars>>
  /\ UNCHANGED appVars

NextPoolLife ==
  NewPool \/ InitWorkers \/ LoadWorker \/ SynthesizeJobLife \/ ReplyWorker \/ OnMessage
    \/ TerminatePool

SpecPoolLife == InitPool /\ [][NextPoolLife]_vars

\* ---- specification of a TTSPool whose workers answer ----

\* Worker w answers one of the jobs it was sent.
WorkerReplies(w) ==
  /\ \E id \in 0..(MaxJobs - 1), ok \in BOOLEAN, d \in Durations :
        /\ (~ok => d = 1)
        /\ WorkerReply(w, id, ok, d)
  /\ UNCHANGED <<rcVars, pipeVars, appVars>>

\* The event loop delivers the next message of worker w.
Delivers(w) == PoolOnMessage(w) /\ UNCHANGED <<rcVars, pipeVars, appVars>>

\* The pool when every worker answers each job it was sent and the event
\* loop of the parent process delivers every message.
FairPool ==
  \A w \in 1..LivePool : WF_vars(WorkerReplies(w)) /\ WF_vars(Delivers(w))

NewPoolLive ==
  /\ \E k \in 1..LivePool : PoolNew(k)
  /\ UNCHANGED <<rcVars, pipeVars>>
  /\ UNCHANGED appVars
SynthesizeJobLive ==
  /\ nextId < LiveJobs
  /\ Synthesize
  /\ UNCHANGED <<rcVars, pipeVars>>
  /\ UNCHANGED appVars

NextPoolFair ==
  NewPoolLive \/ InitWorkers \/ LoadWorker \/ SynthesizeJobLive \/ ReplyWorker \/ OnMessage

SpecPoolFair == InitPool /\ [][NextPoolFair]_vars /\ FairPool

\* A worker process that is up dies (a crash, a kill).  It answers nothing
\* more; the pool listens for the child's 'message' and 'error' events only,
\* so its own state is as before.
WorkerExit(w) ==
  /\ w \in 1..size /\ proc[w] = "up"
  /\ proc' = [proc EXCEPT ![w] = "exited"]
  /\ UNCHANGED <<size, states, queue, pending, nextId, promise, workerJobs, outbox,
                 handled, initOutcome>>

CrashWorker ==
  /\ \E w \in 1..size : WorkerExit(w)
  /\ UNCHANGED <<rcVars, pipeVars>>
  /\ UNCHANGED appVars

NextPoolCrash ==
  NewPoolLive \/ InitWorkers \/ LoadWorker \/ SynthesizeJobLive \/ ReplyWorker \/ OnMessage
  \/ CrashWorker

SpecPoolCrash == InitPool /\ [][NextPoolCrash]_vars /\ FairPool

\* ---------------------------------------------------------------------
\* The artifact paths a run computes
\* ---------------------------------------------------------------------

\* Final and part WAV paths of a list of audio plans.
PlanPaths(plans) ==
  UNION {{plans[k].finalAudioPath}
           \cup {plans[k].parts[j].audioPath : j \in 1..Len(plans[k].parts)} :
         k \in 1..Len(plans)}

\* Segment slide paths and the gap slide path.
SlidePathsOf(segs, gap) == {segs[k].imagePath : k \in 1..Len(segs)} \cup {gap}

\* Clip paths of a descriptor list; the gap clips among them.
ClipPathsOf(descs) == {descs[k].path : k \in 1..Len(descs)}
GapClipsOf(descs) == {descs[k].path : k \in {d \in 1..Len(descs) : descs[d].kind = "gap"}}

ArtifactPaths(plans, segs, gap, descs) ==
  PlanPaths(plans) \cup SlidePathsOf(segs, gap) \cup ClipPathsOf(descs)

\* The clip path of the segment at position k.
SegmentClip(descs, k) ==
  descs[CHOOSE d \in 1..Len(descs) : descs[d].kind = "segment" /\ descs[d].seg = k].path

\* What a plan has the synthesizer say: per part the TTS text and the voice.
Spoken(plan) ==
  [multi |-> plan.isMultiPart,
   parts |-> [j \in 1..Len(plan.parts) |-> <<plan.parts[j].ttsText, plan.parts[j].voice>>]]

SecondRunDone == runNo = 2 /\ pc = "done"

\* The card-wise order q0, a0, [gap], q1, a1, ... for n cards.
RECURSIVE CardOrder(_, _, _)
CardOrder(c, n, gap) ==
  IF c >= n THEN <<>>
  ELSE <<"q" \o ToString(c), "a" \o ToString(c)>>
       \o (IF gap /\ c < n - 1 THEN <<"gap">> ELSE <<>>)
       \o CardOrder(c + 1, n, gap)

DescTag(d) ==
  IF d.kind = "gap" THEN "gap"
  ELSE TypeTag(segments[d.seg]) \o ToString(segments[d.seg].cardIndex)

\* C1: the clip paths handed to concatenateClips, and written to the
\* concat manifest, are the clip descriptors' paths in construction order
\* (q0, a0, [gap], q1, a1, ...), whatever the order in which the encode
\* tasks of runConcurrent completed.
C1_ConcatInConstructionOrder ==
  pc \in {"concat", "done"} =>
    /\ Len(concatList) = Len(clipDescs)
    /\ \A k \in 1..Len(clipDescs) : concatList[k] = "file '" \o clipDescs[k].path \o "'"
    /\ [k \in 1..Len(clipDescs) |-> DescTag(clipDescs[k])]
         = CardOrder(0, Len(cards), config.cardGap > 0)
    /\ \A j, k \in 1..Len(clipDescs) : j # k => clipDescs[j].path # clipDescs[k].path

\* A first run of two cards with a gap clip completed after encodes that
\* finished out of list order.
C1_Witness ==
  /\ pc = "done" /\ runNo = 1 /\ reordered
  /\ Len(cards) >= 2 /\ Len(concatList) >= 5
  /\ \E k \in 1..Len(clipDescs) : clipDescs[k].kind = "gap"

\* C5: a second run on unchanged cards and configuration (force = false)
\* performs no synthesis, no audio concatenation, no slide render and no
\* encode, and computes the same set of artifact paths as the first run.
C5_SecondRunAllCacheHits ==
  (runNo = 2 /\ edit.kind = "none") =>
    /\ stats.synth = 0 /\ stats.concat = 0 /\ stats.render = 0 /\ stats.encode = 0
    /\ pc = "done" =>
         ArtifactPaths(audioPlans, segments, gapSlidePath, clipDescs)
           = ArtifactPaths(prev.audioPlans, prev.segments, prev.gapSlidePath, prev.clipDescs)

\* An unchanged second run of two cards, one with a multi-part answer, completed.
C5_Witness ==
  /\ SecondRunDone /\ edit.kind = "none" /\ ~config.force
  /\ Len(cards) >= 2
  /\ \E k \in 1..Len(audioPlans) : audioPlans[k].isMultiPart
  /\ Len(clipDescs) >= 5

\* Position (in the plans and in the segments) of the edited card's answer.
EditedPlan == 2 * edit.card + 2

AnswerEdited == SecondRunDone /\ edit.kind = "answer"

\* Every path that does not belong to the edited answer is the same in both runs.
OtherPathsSame ==
  /\ Len(audioPlans) = Len(prev.audioPlans)
  /\ Len(clipDescs) = Len(prev.clipDescs)
  /\ \A k \in 1..Len(audioPlans) :
       k # EditedPlan =>
         /\ PlanPaths(<<audioPlans[k]>>) = PlanPaths(<<prev.audioPlans[k]>>)
         /\ audioPlans[k].finalAudioPath = prev.audioPlans[k].finalAudioPath
         /\ segments[k].imagePath = prev.segments[k].imagePath
         /\ SegmentClip(clipDescs, k) = SegmentClip(prev.clipDescs, k)
  /\ gapSlidePath = prev.gapSlidePath
  /\ GapClipsOf(clipDescs) = GapClipsOf(prev.clipDescs)

EditedSlideAndClipDiffer ==
  /\ segments[EditedPlan].imagePath # prev.segments[EditedPlan].imagePath
  /\ SegmentClip(clipDescs, EditedPlan) # SegmentClip(prev.clipDescs, EditedPlan)

EditedAudioDiffers ==
  audioPlans[EditedPlan].finalAudioPath # prev.audioPlans[EditedPlan].finalAudioPath

\* C6 as stated: after an edit of one card's answer text the paths that
\* differ are exactly that answer's audio, slide and clip.
C6_EditedAnswerAudioSlideClipDiffer ==
  AnswerEdited => (OtherPathsSame /\ EditedSlideAndClipDiffer /\ EditedAudioDiffers)

\* C6 (amended): after an edit of one card's answer text every differing
\* path belongs to that answer (audio parts, final audio, slide, clip); its
\* slide and clip paths always differ, and its final audio path differs
\* exactly when what is spoken (the parts' preprocessed text and voice) differs.
C6_EditedAnswerPathsOnly ==
  AnswerEdited =>
    /\ OtherPathsSame
    /\ EditedSlideAndClipDiffer
    /\ EditedAudioDiffers <=> (Spoken(audioPlans[EditedPlan]) # Spoken(prev.audioPlans[EditedPlan]))

\* The answer of the first of two cards was edited in its last prose part
\* only: multi-part in both runs, final audio path changed.
C6_Witness ==
  /\ AnswerEdited /\ Len(cards) >= 2 /\ edit.card = 0
  /\ audioPlans[EditedPlan].isMultiPart /\ prev.audioPlans[EditedPlan].isMultiPart
  /\ EditedAudioDiffers
  /\ audioPlans[EditedPlan].parts[1].audioPath = prev.audioPlans[EditedPlan].parts[1].audioPath

\* C7 (for the text color): changing textColor alone changes the path of
\* every slide (gap slide included) and of every clip (gap clips included)
\* and of no audio file.
C7_TextColorChangesEverySlideAndClip ==
  (SecondRunDone /\ edit.kind = "config" /\ edit.field = "textColor") =>
    /\ \A k \in 1..Len(segments) : segments[k].imagePath # prev.segments[k].imagePath
    /\ gapSlidePath # prev.gapSlidePath
    /\ \A d \in 1..Len(clipDescs) : clipDescs[d].path # prev.clipDescs[d].path
    /\ PlanPaths(audioPlans) = PlanPaths(prev.audioPlans)

\* Parts of plan c whose text or voice differs from the same part of plan p.
ChangedParts(p, c) ==
  {j \in 1..Len(c.parts) :
     <<c.parts[j].ttsText, c.parts[j].voice>> # <<p.parts[j].ttsText, p.parts[j].voice>>}

OnePartChanged(p, c) ==
  /\ p.isMultiPart /\ c.isMultiPart /\ Len(p.parts) = Len(c.parts)
  /\ Cardinality(ChangedParts(p, c)) = 1

PartEditIsLocal(p, c) ==
  OnePartChanged(p, c) =>
    /\ \A j \in 1..Len(c.parts) :
         (c.parts[j].audioPath # p.parts[j].audioPath) <=> (j \in ChangedParts(p, c))
    /\ c.finalAudioPath # p.finalAudioPath

\* The plan buildAudioPlan makes for the answer of card i (1-based) of cs.
AnswerPlanOfBuilder(cs, cfg, i) ==
  buildAudioPlan(cs[i].answer, cfg.tempDir,
                 "a_" \o ToString(i - 1) \o "_" \o slug(cs[i].question),
                 cfg.voice, cfg.codeVoice)

\* C8: for a multi-part answer plan (of runPipeline, and of buildAudioPlan
\* for the same answers, looked at when the run has built its plans), when
\* the text or voice of exactly one part changes between two runs, that
\* part's audio path and the final audio path change and no other part's
\* audio path changes.
C8_PartEditIsLocal ==
  (runNo = 2 /\ prev.ok /\ audioPlans # <<>>) =>
    \A i \in 1..Len(cards) :
      /\ PartEditIsLocal(prev.audioPlans[2 * i], audioPlans[2 * i])
      /\ pc = "pool" =>
           PartEditIsLocal(AnswerPlanOfBuilder(prev.cards, prev.config, i),
                           AnswerPlanOfBuilder(cards, config, i))

\* The first prose part of a [prose, code, prose] answer was edited: the
\* code part keeps its path, the run completed.
C8_Witness ==
  /\ SecondRunDone /\ edit.kind = "answer"
  /\ LET p == prev.audioPlans[EditedPlan]
         c == audioPlans[EditedPlan]
     IN /\ OnePartChanged(p, c)
        /\ Len(c.parts) = 3 /\ ChangedParts(p, c) = {1}
        /\ c.parts[2].voice = config.codeVoice
        /\ c.parts[2].audioPath = p.parts[2].audioPath
        /\ c.finalAudioPath # p.finalAudioPath

\* C9: a segment clip's path differs between two runs whenever the
\* segment's audio path or slide path differs, is the same when audio
\* path, slide path and total duration are the same, and a clip file found
\* on disk before its encode task starts belongs to the same audio and
\* slide paths as in the run that wrote it.
C9_ClipFollowsAudioAndSlide ==
  (runNo = 2 /\ prev.ok /\ clipDescs # <<>>) =>
    \A k \in 1..Len(segments) :
      LET s == segments[k]
          t == prev.segments[k]
          d == CHOOSE d \in 1..Len(clipDescs) : clipDescs[d].kind = "segment" /\ clipDescs[d].seg = k
      IN /\ (s.audioPath # t.audioPath \/ s.imagePath # t.imagePath)
              => SegmentClip(clipDescs, k) # SegmentClip(prev.clipDescs, k)
         /\ (s.audioPath = t.audioPath /\ s.imagePath = t.imagePath
               /\ s.totalDuration = t.totalDuration)
              => SegmentClip(clipDescs, k) = SegmentClip(prev.clipDescs, k)
         /\ (pc = "encode" /\ tasks[d] = "new" /\ Exists(clipDescs[d].path))
              => (s.audioPath = t.audioPath /\ s.imagePath = t.imagePath)

\* After a change of the code voice a multi-part answer has a new audio
\* path, the same slide path and the same duration; the second run completed.
C9_Witness ==
  /\ SecondRunDone /\ edit.field = "codeVoice"
  /\ \E k \in 1..Len(segments) :
       /\ segments[k].audioPath # prev.segments[k].audioPath
       /\ segments[k].imagePath = prev.segments[k].imagePath
       /\ segments[k].totalDuration = prev.segments[k].totalDuration
       /\ SegmentClip(clipDescs, k) # SegmentClip(prev.clipDescs, k)

\* Paths the run knows: files on disk and planned audio files.
KnownPaths == {f.path : f \in fs} \cup PlanPaths(audioPlans)

ForcedRunDone == SecondRunDone /\ edit.kind = "config" /\ edit.field = "force"

\* C10: isCached(path, force) is true iff the file exists and force is
\* false; a completed run with force = true on top of a completed run
\* computes the same artifact paths and synthesizes every part,
\* concatenates every multi-part audio, renders every slide and encodes
\* every clip.
C10_ForceBypassesCache ==
  /\ \A p \in KnownPaths, f \in BOOLEAN : isCached(p, f) <=> (Exists(p) /\ ~f)
  /\ ForcedRunDone =>
       /\ ArtifactPaths(audioPlans, segments, gapSlidePath, clipDescs)
            = ArtifactPaths(prev.audioPlans, prev.segments, prev.gapSlidePath, prev.clipDescs)
       /\ stats.synth = Len(FlatParts(audioPlans, TRUE, config)) + Len(FlatParts(audioPlans, FALSE, config))
       /\ stats.concat = Cardinality({k \in 1..Len(audioPlans) : audioPlans[k].isMultiPart})
       /\ stats.render = Len(segments) + 1
       /\ stats.encode = Len(clipDescs)

\* A forced second run of two cards, one multi-part, completed with every
\* artifact already on disk from the first run.
C10_Witness ==
  /\ ForcedRunDone /\ config.force
  /\ Len(cards) >= 2 /\ stats.concat >= 1 /\ stats.synth >= 6
  /\ \A p \in ArtifactPaths(audioPlans, segments, gapSlidePath, clipDescs) : Exists(p)

\* The file at path, if any, is complete.
Complete(path) == \A f \in fs : f.path = path => ~f.partial

Resumed == runNo = 2 /\ edit.kind = "resume" /\ pc = "done"

\* C11: when a run was killed while artifact files were being written, the
\* next run (force = false) reuses no partially written file: at its end
\* every audio, slide and clip file it uses is complete.
C11_PartialFileNotReused ==
  Resumed =>
    \A p \in ArtifactPaths(audioPlans, segments, gapSlidePath, clipDescs) : Complete(p)

\* The cached artifacts of the current run: part and final audio, slides, clips.
CurrentArtifacts == ArtifactPaths(audioPlans, segments, gapSlidePath, clipDescs)

\* Files every run writes anew: the concat manifest and the output video.
PerRunFiles == {ConcatListPath(config.tempDir), OutputPath}

\* C12 (as stated): no writer ever writes to a path at which a file exists.
C12_NoWriteToExistingPath == stats.overwritten = {}

\* C12 (amended): with force = false no writer of a cached artifact writes
\* to a path at which a file exists; only the concat manifest and the output
\* video, written by every run, are overwritten.
C12_NoArtifactOverwrittenUnlessForced ==
  ~config.force => stats.overwritten \subseteq PerRunFiles

\* A second run after an answer edit has completed: it wrote new artifacts,
\* and a clip of the first run is still in place beside them.
C12_Witness ==
  /\ SecondRunDone /\ ~config.force /\ edit.kind = "answer"
  /\ stats.encode > 0
  /\ stats.overwritten = PerRunFiles
  /\ \E q \in ClipPathsOf(prev.clipDescs) : q \notin CurrentArtifacts /\ Exists(q)

\* The shape of one Audio Plan.
PlanWellFormed(p) ==
  IF p.isMultiPart
  THEN \A k \in 1..Len(p.parts) : p.finalAudioPath # p.parts[k].audioPath
  ELSE Len(p.parts) = 1 /\ p.finalAudioPath = p.parts[1].audioPath

\* C13: in every Audio Plan (of runPipeline, and of buildAudioPlan for the
\* answers of the run, looked at when the run has built its plans), a plan
\* that is not multi-part has exactly one part whose audio path is the final
\* audio path, and the final audio path of a multi-part plan differs from
\* the audio path of each of its parts.
C13_AudioPlanShape ==
  /\ \A k \in 1..Len(audioPlans) : PlanWellFormed(audioPlans[k])
  /\ pc = "pool" =>
       \A i \in 1..Len(cards) : PlanWellFormed(AnswerPlanOfBuilder(cards, config, i))

\* A run has built a single-part plan and a multi-part plan of three parts.
C13_Witness ==
  /\ pc = "done"
  /\ \E k \in 1..Len(audioPlans) : ~audioPlans[k].isMultiPart /\ Len(audioPlans[k].parts) = 1
  /\ \E k \in 1..Len(audioPlans) :
       /\ audioPlans[k].isMultiPart /\ Len(audioPlans[k].parts) = 3
       /\ Exists(audioPlans[k].finalAudioPath)
       /\ \A j \in 1..3 : Exists(audioPlans[k].parts[j].audioPath)

\* The pool handles a reply of worker w in this step (not its first message).
HandlesReply(w) == handled[w] > 0 /\ handled'[w] = handled[w] + 1

\* The entry of worker process w in this.states.
StateOf(st, w) == st[CHOOSE k \in 1..Len(st) : st[k].proc = w]

\* The jobs of sequence q.
Range(q) == {q[k] : k \in 1..Len(q)}

\* C14: when the pool handles an 'error' reply for a job, that job's promise
\* is rejected and no other promise changes; the other in-flight jobs stay
\* pending at their workers; the queued jobs stay queued, except that the
\* head of the queue, if any, is sent to the replying worker, which is idle
\* otherwise.
C14_ErrorRejectsOnlyThatJob ==
  [][\A w \in 1..size :
       (HandlesReply(w) /\ Head(outbox[w]).type = "error" /\ Head(outbox[w]).id \in pending) =>
         LET id == Head(outbox[w]).id IN
         /\ promise[id + 1].st = "pending" /\ promise'[id + 1].st = "rejected"
         /\ \A j \in 1..Len(promise) : j # id + 1 => promise'[j] = promise[j]
         /\ pending \ {id} \subseteq pending'
         /\ \A v \in 1..size : v # w => workerJobs'[v] = workerJobs[v]
         /\ IF queue = <<>>
            THEN /\ queue' = <<>> /\ pending' = pending \ {id}
                 /\ ~StateOf(states', w).busy /\ workerJobs'[w] = workerJobs[w]
            ELSE /\ StateOf(states', w).busy /\ workerJobs'[w] = workerJobs[w] \cup {Head(queue)}
                 /\ queue' = Tail(queue)
                 /\ pending' = (pending \ {id}) \cup {Head(queue)}
    ]_vars

\* Three jobs on two workers: job 0 was rejected, job 1 is still in flight
\* at the other worker, job 2 left the queue for the worker that replied.
C14_Witness ==
  /\ Len(states) = 2 /\ Len(promise) = 3
  /\ promise[1].st = "rejected"
  /\ \A j \in 2..3 : promise[j].st = "pending"
  /\ workerJobs[states[1].proc] = {2} /\ workerJobs[states[2].proc] = {1}
  /\ pending = {1, 2} /\ queue = <<>>

\* Job id was accepted by an initialized pool and is not settled: it is at a
\* worker, or queued behind busy workers.
Accepted(id) ==
  /\ initOutcome = "resolved" /\ id < nextId
  /\ promise[id + 1].st = "pending"
  /\ \/ id \in pending
     \/ id \in Range(queue) /\ \A k \in 1..Len(states) : states[k].busy

Settled(id) == id < nextId /\ promise[id + 1].st # "pending"

\* synthesize on an initialized pool leaves the new job accepted.
SynthesizeAccepts ==
  (initOutcome = "resolved" /\ nextId' = nextId + 1) =>
     \/ nextId \in pending'
     \/ nextId \in Range(queue') /\ \A k \in 1..Len(states') : states'[k].busy

\* A promise changes only once, from pending, by the handling of a reply
\* that carries its id: resolved with the duration of a 'done' reply,
\* rejected by an 'error' reply.
SettlesOnceByReply ==
  \A id \in 0..(nextId - 1) :
    promise'[id + 1] # promise[id + 1] =>
      /\ promise[id + 1].st = "pending" /\ id \in pending /\ id \notin pending'
      /\ \E w \in 1..size :
           /\ HandlesReply(w) /\ Head(outbox[w]).id = id
           /\ promise'[id + 1] =
                IF Head(outbox[w]).type = "done"
                THEN [st |-> "resolved", v |-> Head(outbox[w]).duration]
                ELSE [st |-> "rejected", v |-> 0]

\* C15: every job passed to synthesize on an initialized pool is eventually
\* sent to a worker and its promise is eventually settled, exactly once:
\* resolved with the duration of its 'done' reply or rejected by its 'error'
\* reply, when every worker answers the jobs it was sent.
C15_EveryJobSettledOnce ==
  /\ [][SynthesizeAccepts /\ SettlesOnceByReply]_vars
  /\ \A id \in 0..(LiveJobs - 1) :
       /\ Accepted(id) ~> (id < nextId /\ id \notin Range(queue))
       /\ Accepted(id) ~> Settled(id)

\* All jobs of a full pool were settled, by 'done' and by 'error' replies,
\* although more jobs were submitted than there are workers.
C15_Witness ==
  /\ initOutcome = "resolved" /\ Len(states) = size
  /\ nextId = LiveJobs /\ nextId > size
  /\ \A id \in 0..(nextId - 1) : Settled(id)
  /\ \E id \in 0..(nextId - 1) : promise[id + 1] = [st |-> "resolved", v |-> 2]
  /\ \E id \in 0..(nextId - 1) : promise[id + 1].st = "rejected"
  /\ queue = <<>> /\ pending = {}

\* The lifecycle state of worker process w as the pool sees it.
WorkerState(w) ==
  CASE proc[w] = "none" -> "unborn"
    [] proc[w] = "failed" -> "failed"
    [] proc[w] = "exited" -> "terminated"
    [] OTHER -> IF \E k \in 1..Len(states) : states[k].proc = w
                THEN (IF StateOf(states, w).busy THEN "busy" ELSE "ready")
                ELSE "starting"

LifecycleSteps ==
  {<<"unborn", "starting">>, <<"starting", "ready">>, <<"starting", "failed">>,
   <<"ready", "busy">>, <<"busy", "ready">>, <<"busy", "busy">>,
   <<"ready", "terminated">>, <<"busy", "terminated">>}

\* Jobs sent to worker w whose reply the pool has not handled.
Unanswered(w) ==
  workerJobs[w] \cup {outbox[w][k].id : k \in {j \in 1..Len(outbox[w]) : outbox[w][j].id >= 0}}

\* C16: each worker goes starting -> ready -> busy -> ready -> ... ->
\* terminated (busy -> busy only when its handled reply is followed at once
\* by the next job); a job is sent only to a worker that has signalled ready
\* and is not busy, so no worker has more than one unanswered job.
C16_WorkerLifecycle ==
  [][\A w \in 1..size :
       /\ WorkerState(w)' # WorkerState(w) => <<WorkerState(w), WorkerState(w)'>> \in LifecycleSteps
       /\ (WorkerState(w) = "busy" /\ WorkerState(w)' = "busy" /\ workerJobs'[w] # workerJobs[w])
            => (HandlesReply(w) \/ workerJobs'[w] \subseteq workerJobs[w])
       /\ \A id \in workerJobs'[w] \ workerJobs[w] :
            /\ handled[w] >= 1 /\ \E k \in 1..Len(states) : states[k].proc = w
            /\ (WorkerState(w) = "ready" \/ (WorkerState(w) = "busy" /\ HandlesReply(w)))
            /\ Unanswered(w)' = {id}
       /\ Cardinality(Unanswered(w)') <= 1
    ]_vars

\* Two workers went through ready and busy, one of them twice, answered
\* every job and were then terminated.
C16_Witness ==
  /\ size = 2 /\ Len(states) = 2
  /\ \A w \in 1..2 : WorkerState(w) = "terminated" /\ handled[w] >= 2 /\ Unanswered(w) = {}
  /\ \E w \in 1..2 : handled[w] >= 3
  /\ nextId >= 3 /\ \A id \in 0..(nextId - 1) : Settled(id)

\* Worker w has an entry in this.states.
InStates(w) == \E k \in 1..Len(states) : states[k].proc = w

\* The pool handles the first message of worker w in this step.
HandlesFirst(w) == handled[w] = 0 /\ handled'[w] = 1

\* C17: init returns successfully only when each of the size workers has
\* sent 'ready' and the pool has handled it; the pool then holds exactly
\* size workers, all idle; and init fails, for good, as soon as the first
\* message of a worker is not 'ready'.
C17_InitWaitsForAllReady ==
  /\ [](initOutcome = "resolved" =>
          /\ Len(states) = size
          /\ \A w \in 1..size : handled[w] >= 1 /\ InStates(w) /\ proc[w] \in {"up", "exited"})
  /\ [][(initOutcome # "resolved" /\ initOutcome' = "resolved") =>
           /\ Len(states') = size /\ \A k \in 1..size : ~states'[k].busy
           /\ \E w \in 1..size : HandlesFirst(w) /\ Head(outbox[w]).type = "ready"]_vars
  /\ [][/\ \A w \in 1..size :
              ((HandlesFirst(w) /\ Head(outbox[w]).type # "ready") => (initOutcome' = "rejected"))
         /\ ((initOutcome = "rejected") => (initOutcome' = "rejected"))]_vars

\* init of a pool of two workers has returned: both workers were loaded, sent
\* 'ready', and sit idle in the pool before any job was submitted.
C17_Witness ==
  /\ size = 2 /\ initOutcome = "resolved"
  /\ Len(states) = 2 /\ \A k \in 1..2 : ~states[k].busy
  /\ \A w \in 1..2 : proc[w] = "up" /\ handled[w] = 1 /\ outbox[w] = <<>>
  /\ nextId = 0

\* Some worker coroutine of runConcurrent has thrown.
SomeThrew(ws) == \E w \in 1..Len(ws) : ws[w].st = "threw"

\* C18: when a clip-encode task rejects, runConcurrent rejects at the first
\* rejection a worker coroutine meets and stays rejected; runPipeline can
\* then only fail; concatenateClips is not started in that run, so a run
\* that reached the concatenation has no rejected clip task and a run that
\* failed on a rejection has written no concat list.
C18_EncodeFailureAbortsRun ==
  /\ [][pc = "encode" =>
          /\ ((~SomeThrew(rcWorker) /\ SomeThrew(rcWorker')) => (rcOutcome' = "rejected"))
          /\ ((rcOutcome = "rejected") =>
                (rcOutcome' = "rejected" /\ pc' \in {"encode", "failed"} /\ concatList' = <<>>))
     ]_vars
  /\ [](pc \in {"concat", "done"} =>
          (rcOutcome = "resolved" /\ \A i \in 1..Len(tasks) : tasks[i] = "ok"))
  /\ []((pc = "failed" /\ rcOutcome = "rejected") =>
          (concatList = <<>> /\ \E i \in 1..Len(tasks) : tasks[i] = "err"))

\* A run failed in the encode stage: one clip task was rejected after another
\* clip had been encoded, and no concat list was written.
C18_Witness ==
  /\ pc = "failed" /\ rcOutcome = "rejected"
  /\ \E i \in 1..Len(tasks) : tasks[i] = "err"
  /\ \E i \in 1..Len(tasks) : tasks[i] = "ok" /\ Exists(clipDescs[i].path)
  /\ concatList = <<>> /\ ~Exists(OutputPath)

\* A removeStale call of the cleanup stage may delete the file at path: its
\* name starts with <prefix>_ and ends with .wav, and it is not the call's
\* keepPath.
MayDelete(path) ==
  \E k \in 1..Len(audioPlans) :
    /\ ~audioPlans[k].isMultiPart
    /\ Matches(config.tempDir, StalePrefix(audioPlans[k]), "wav", path)
    /\ path # audioPlans[k].finalAudioPath

\* C19: removeStale deletes only files of the directory whose name starts
\* with <prefix>_ and ends with .<ext> and whose path is not keepPath; the
\* keepPath file and every file that does not match are left unchanged.
C19_RemoveStaleFrame ==
  [][pc = "cleanup" =>
       /\ fs' \subseteq fs
       /\ \A f \in fs : f \notin fs' => MayDelete(f.path)
       /\ \A k \in 1..Len(audioPlans) :
            Exists(audioPlans[k].finalAudioPath) =>
              \E f \in fs' : f.path = audioPlans[k].finalAudioPath
    ]_vars

\* The stale files of the first run's multi-part answer were all deleted
\* when the answer became prose; the kept audio, the slides and the clips
\* are in place.
C19_Witness ==
  /\ runNo = 2 /\ pc = "slides" /\ edit.kind = "answer" /\ prev.ok
  /\ prev.audioPlans[EditedPlan].isMultiPart /\ ~audioPlans[EditedPlan].isMultiPart
  /\ \A q \in PlanPaths(<<prev.audioPlans[EditedPlan]>>) : ~Exists(q)
  /\ \A q \in PlanPaths(audioPlans) : Exists(q)
  /\ \A q \in SlidePathsOf(prev.segments, prev.gapSlidePath) \cup ClipPathsOf(prev.clipDescs) : Exists(q)

\* C20: when unlink fails inside removeStale the failure is swallowed:
\* whichever deletions fail, removeStale completes without an error and the
\* cleanup stage always goes on to the slide stage.
C20_UnlinkFailureSwallowed ==
  [][pc = "cleanup" => pc' = "slides"]_vars

\* The cleanup could not delete one stale file, deleted another, and the run
\* went on and completed.
C20_Witness ==
  /\ SecondRunDone /\ edit.kind = "answer" /\ prev.ok
  /\ prev.audioPlans[EditedPlan].isMultiPart /\ ~audioPlans[EditedPlan].isMultiPart
  /\ \E q \in PlanPaths(<<prev.audioPlans[EditedPlan]>>) : MayDelete(q) /\ Exists(q)
  /\ \E q \in PlanPaths(<<prev.audioPlans[EditedPlan]>>) : MayDelete(q) /\ ~Exists(q)

\* ---------------------------------------------------------------------
\* C21
\* ---------------------------------------------------------------------

\* The segments (question or answer of a card) whose plan, in this run or
\* in the previous one, named the path as a part or final audio file.
OwnersOf(path) ==
  {<<pl.isQuestion, pl.cardIndex>> :
     pl \in {p \in Range(audioPlans) \cup Range(prev.audioPlans) : path \in PlanPaths(<<p>>)}}

\* The segments whose plan is single-part in this run: those the cleanup
\* is performed for.
CleanedSegments ==
  {<<pl.isQuestion, pl.cardIndex>> : pl \in {p \in Range(audioPlans) : ~p.isMultiPart}}

\* C21: every file the stale-audio cleanup of runPipeline deletes is an
\* audio file of a question or answer the cleanup is performed for, never
\* one of another segment or another card (card 1 against card 10 too),
\* and never a file that is valid for the current run.
C21_CleanupStaysInItsSegment ==
  [][pc = "cleanup" =>
       \A f \in fs \ fs' :
         /\ f.path \notin PlanPaths(audioPlans)
         /\ OwnersOf(f.path) # {}
         /\ OwnersOf(f.path) \subseteq CleanedSegments]_vars

\* The cleanup of a second run removed the stale audio of card 1 while the
\* audio of card 10 (0-based) and of every current plan is still there.
C21_Witness ==
  /\ pc = "slides" /\ runNo = 2 /\ Len(cards) >= 11
  /\ \E q \in PlanPaths(<<prev.audioPlans[4]>>) : ~Exists(q)
  /\ \A q \in PlanPaths(<<audioPlans[21], audioPlans[22]>>) : Exists(q)
  /\ \A q \in PlanPaths(audioPlans) : Exists(q)

\* ---------------------------------------------------------------------
\* C22
\* ---------------------------------------------------------------------

\* Values of --card-gap tried on the descriptor loop.
GapValues == {0 - 1, 0, 1, 2}

\* Position (1-based) of the question clip of card c (0-based) in a list
\* that has a gap clip after every card before c iff withGap.
QuestionPos(c, withGap) == 2 * c + (IF withGap THEN c ELSE 0) + 1

\* descs is, card by card, question clip, answer clip and, iff gap > 0 and
\* the card is not the last, one gap clip.
CardWise(descs, segs, n, gap) ==
  /\ Cardinality({k \in 1..Len(descs) : descs[k].kind = "segment"}) = 2 * n
  /\ Cardinality({k \in 1..Len(descs) : descs[k].kind = "gap"}) = IF gap > 0 THEN n - 1 ELSE 0
  /\ \A c \in 0..(n - 1) :
       LET q == QuestionPos(c, gap > 0) IN
       /\ q + 1 <= Len(descs)
       /\ descs[q].kind = "segment" /\ descs[q].seg = 2 * c + 1
       /\ segs[descs[q].seg].type = "question" /\ segs[descs[q].seg].cardIndex = c
       /\ descs[q + 1].kind = "segment" /\ descs[q + 1].seg = 2 * c + 2
       /\ segs[descs[q + 1].seg].type = "answer" /\ segs[descs[q + 1].seg].cardIndex = c
       /\ (gap > 0 /\ c < n - 1) => descs[q + 2].kind = "gap"
  /\ descs[Len(descs)].kind # "gap"

\* The encode stage has built its list and started its first tasks; no
\* worker of runConcurrent has resumed yet.
EncodeJustCalled ==
  /\ pc = "encode"
  /\ \A k \in 1..Len(rcWorker) : rcWorker[k].st = "await" /\ rcWorker[k].i = k
  /\ \A i \in 1..Len(results) : results[i] = Hole

\* C22: the clip descriptor list of runPipeline holds, per card in order,
\* the question clip, the answer clip and, when cardGap > 0, one gap clip
\* after the answer of every card but the last (2N segment clips, N-1 gap
\* clips); with cardGap <= 0 it holds no gap clip; the last clip is never
\* a gap clip.  The run's own list is checked in every state, the loop on
\* the run's segments for each gap value when the list has just been built.
C22_ClipDescsCardWise ==
  clipDescs # <<>> =>
    /\ CardWise(clipDescs, segments, Len(cards), config.cardGap)
    /\ EncodeJustCalled =>
         \A g \in GapValues :
           CardWise(ClipDescs(segments, 0, [config EXCEPT !.cardGap = g], Len(cards)),
                    segments, Len(cards), g)

\* A second run of two cards with cardGap set to 0 built four clips, after
\* a first run with cardGap 1 that built four segment clips and one gap clip.
C22_Witness ==
  /\ runNo = 2 /\ pc = "done" /\ edit.field = "cardGap" /\ config.cardGap = 0
  /\ Len(cards) = 2 /\ Len(clipDescs) = 4
  /\ prev.config.cardGap = 1 /\ Len(prev.clipDescs) = 5
  /\ prev.clipDescs[3].kind = "gap"

\* ---------------------------------------------------------------------
\* C23
\* ---------------------------------------------------------------------

\* C23: every Segment constructed by runPipeline has totalDuration >=
\* audioDuration, whatever --question-delay / --answer-delay and the YAML
\* delays are.
C23_TotalAtLeastAudio ==
  \A k \in 1..Len(segments) : segments[k].totalDuration >= segments[k].audioDuration

\* ---------------------------------------------------------------------
\* C25
\* ---------------------------------------------------------------------

\* The value an option stands for in the config (delays are parsed).
GivenValue(f) ==
  IF f \in {"questionDelay", "answerDelay"} THEN parseFloat(argv[f]) ELSE argv[f]

\* Command line first, then the YAML config, then the built-in default.
Layered(f) ==
  IF argv[f] # Undefined THEN GivenValue(f)
  ELSE IF (IF f \in {"voice", "codeVoice"} THEN Truthy(yamlConfig, f) ELSE Has(yamlConfig, f))
       THEN yamlConfig[f]
       ELSE DefaultConfig[f]

\* C25: once Stage 1 is over, each of questionDelay, answerDelay, voice and
\* codeVoice of the config the pipeline uses is the value given on the
\* command line if one was given, otherwise the YAML config's value if
\* present, otherwise the built-in default.
C25_CliOverYamlOverDefault ==
  pc \notin {"cli", "idle"} =>
    \A f \in {"questionDelay", "answerDelay", "voice", "codeVoice"} : config[f] = Layered(f)

\* ---------------------------------------------------------------------
\* C24
\* ---------------------------------------------------------------------

\* Audio paths of the TTS parts of the run's plans that are not cached.
MissingParts ==
  {q \in UNION {{audioPlans[k].parts[j].audioPath : j \in 1..Len(audioPlans[k].parts)} :
                 k \in 1..Len(audioPlans)} : ~isCached(q, config.force)}

\* No TTS pool was created and no synthesis job was enqueued.
NoPoolYet ==
  /\ size = 0 /\ initOutcome = "none" /\ states = <<>> /\ queue = <<>> /\ pending = {}
  /\ nextId = 0 /\ promise = <<>> /\ proc = <<>>

\* The step that builds the audio plans fails at once when skipTTS is set
\* and a part is missing; the missing list counts exactly those parts.
FailsOnMissing ==
  (pc = "idle" /\ pc' # "idle" /\ config'.skipTTS /\ MissingParts' # {}) =>
     /\ pc' = "failed"
     /\ Len(uncachedMain') + Len(uncachedCode') = Cardinality(MissingParts')
     /\ fs' = fs

\* C24: with skipTTS set and the audio of at least one TTS part not cached,
\* runPipeline fails as soon as the plans are built, its missing list
\* holding exactly the uncached parts; no TTS pool is created, no job is
\* enqueued, and no file is written or removed before or after the failure.
C24_SkipTTSFailsBeforeWork ==
  /\ [][FailsOnMissing /\ (pc = "failed" /\ config.skipTTS => fs' = fs)]_vars
  /\ [](config.skipTTS /\ audioPlans # <<>> /\ MissingParts # {} =>
          pc = "failed" /\ NoPoolYet /\ stats = NoStats)

\* An update-mode run after an edited answer failed with some, not all, of
\* the parts missing.
C24_Witness ==
  /\ pc = "failed" /\ config.skipTTS /\ runNo = 2 /\ edit.kind = "answer"
  /\ MissingParts # {}
  /\ Cardinality(MissingParts) < Len(FlatParts(audioPlans, TRUE, config))
  /\ NoPoolYet

\* ---------------------------------------------------------------------
\* C26
\* ---------------------------------------------------------------------

\* The loop recorded exactly the first batch.fi files, in order, once each.
RecordedInOrder ==
  /\ Len(batch.results) = batch.fi
  /\ batch.fi <= Len(batch.yamlFiles)
  /\ \A k \in 1..Len(batch.results) : batch.results[k].file = batch.yamlFiles[k]

\* A run that threw is recorded as FAILED for its own file; the entries of
\* the other files stay and the loop is at the next file.
FailureIsLocal ==
  pc = "failed" /\ pc' # "failed" =>
    /\ pc' = "batch"
    /\ batch'.fi = batch.fi + 1
    /\ Len(batch'.results) = Len(batch.results) + 1
    /\ SubSeq(batch'.results, 1, Len(batch.results)) = batch.results
    /\ batch'.results[batch'.fi] = [file |-> batch.yamlFiles[batch.fi + 1], status |-> "FAILED"]

\* C26: in batch mode a runPipeline failure is caught and recorded as
\* FAILED for that file only, the loop goes on with the next file, OK is
\* recorded only for a run that completed, and when the command ends every
\* file of the directory has its own entry.
C26_BatchFailureIsLocal ==
  /\ [][FailureIsLocal
         /\ (pc = "done" => batch'.results[batch'.fi].status = "OK")
         /\ (batch'.results # batch.results /\ batch'.results[batch'.fi].status = "OK"
               => pc = "done")]_vars
  /\ [](RecordedInOrder /\ (pc = "exit" => batch.fi = Len(batch.yamlFiles)))

\* The run of the first file failed, the later files were still processed
\* and one of them completed.
C26_Witness ==
  /\ pc = "exit" /\ Len(batch.yamlFiles) >= 3
  /\ batch.results[1].status = "FAILED"
  /\ batch.results[2].status = "OK"
  /\ Len(batch.results) = Len(batch.yamlFiles)

\* Texts whose plans are looked at beside those of the run: a fence alone,
\* a fence first, a fence that is never closed, an inline span, white space.
CodeOnly == <<"'''js", "x=1", "'''">>
CodeFirst == <<"'''js", "x=1", "'''", "Done">>
Unclosed == <<"Go", "'''js", "x=1">>
Inline1 == <<"Use 'x' now">>
Blank1 == <<" ">>
PlanTexts == {Prose1, Mixed1, CodeOnly, CodeFirst, Unclosed, Inline1, Blank1}

Prose(t) == [kind |-> "prose", tts |-> t]
Code(t) == [kind |-> "code", tts |-> t]

\* The prose and code segments of a text, in the order they occur in it,
\* each with the text that is spoken for it, written out by hand; inline is
\* whether an inline span counts as a code segment (the planner that counts
\* them speaks the prose before an unclosed fence and the fence itself as
\* two pieces joined by a space).
SegmentsOf(text, inline) ==
  CASE text = Prose1 -> <<Prose("Jason maps")>>
    [] text = Blank1 -> <<Prose(" ")>>
    [] text = Mixed1 -> <<Prose("Use it"), Code("Code: x=1"), Prose("Done")>>
    [] text = CodeOnly -> <<Code("Code: x=1")>>
    [] text = CodeFirst -> <<Code("Code: x=1"), Prose("Done")>>
    [] text = Unclosed -> IF inline THEN <<Prose("Go 'js,, x=1")>>
                          ELSE <<Prose("Go,, 'js,, x=1")>>
    [] text = Inline1 -> IF inline THEN <<Prose("Use "), Code("x"), Prose(" now")>>
                         ELSE <<Prose("Use x now")>>

\* The kinds of the segments of a text of the run (a question or an answer).
KindsOf(text) ==
  IF text \in {Mixed1, Mixed2, Mixed3, Mixed4} THEN <<"prose", "code", "prose">>
  ELSE <<"prose">>

\* The parts of plan p have the voices the segment kinds call for, one part
\* per segment, in order.
VoicesFollow(p, kinds, cfg) ==
  /\ Len(p.parts) >= 1
  /\ Len(p.parts) = Len(kinds)
  /\ \A k \in 1..Len(kinds) :
       p.parts[k].voice = IF kinds[k] = "code" THEN cfg.codeVoice ELSE cfg.voice

PartsFollow(p, segs, cfg) ==
  /\ VoicesFollow(p, [k \in 1..Len(segs) |-> segs[k].kind], cfg)
  /\ \A k \in 1..Len(segs) : p.parts[k].ttsText = segs[k].tts

TextOfPlan(p) ==
  IF p.isQuestion THEN cards[p.cardIndex + 1].question ELSE cards[p.cardIndex + 1].answer

NoCard == 0 - 1

\* [result[i], result[j]] = [result[j], result[i]], i and j being 0-based
Swap(arr, i, j) == [arr EXCEPT ![i + 1] = arr[j + 1], ![j + 1] = arr[i + 1]]

\* shuffle(arr): the loop from position i down to 1, each j being
\* Math.floor(Math.random() * (i + 1)) at one end of its range, 0 or i.
RECURSIVE shuffle(_, _)
shuffle(result, i) ==
  IF i <= 0 THEN {result}
  ELSE UNION {shuffle(Swap(result, i, j), i - 1) : j \in {0, i}}

\* makeOrder(length, shouldShuffle): the orders it can return.
makeOrder(length, shouldShuffle) ==
  LET order == [k \in 1..length |-> k - 1]
  IN IF shouldShuffle THEN shuffle(order, length - 1) ELSE {order}

\* getReinsertDistance(rating, remaining), jitter being Math.round(Math.random())
getReinsertDistance(rating, remaining, jitter) ==
  CASE rating = "again" -> Max(3, remaining \div 10) + jitter
    [] rating = "hard" -> Max(5, remaining \div 4) + jitter
    [] rating = "good" -> Max(7, (remaining * 3) \div 5) + jitter

\* arr.splice(at, 1) and arr.splice(at, 0, v), at being 0-based
SpliceOut(arr, at) ==
  IF at < Len(arr) THEN SubSeq(arr, 1, at) \o SubSeq(arr, at + 2, Len(arr)) ELSE arr
SpliceIn(arr, at, v) ==
  SubSeq(arr, 1, at) \o <<v>> \o SubSeq(arr, at + 1, Len(arr))

CardAt(st) ==
  IF st.currentCardIdx < Len(st.cardOrder) THEN st.cardOrder[st.currentCardIdx + 1] ELSE NoCard

advanceQueue_noRemove(st, jitter) ==
  LET rating == st.pendingRating
      newOrder == IF rating \in {"again", "hard", "good"}
                  THEN SpliceIn(st.cardOrder,
                                Min(st.currentCardIdx
                                      + getReinsertDistance(rating, Len(st.cardOrder) - st.currentCardIdx, jitter),
                                    Len(st.cardOrder)),
                                CardAt(st))
                  ELSE SpliceOut(st.cardOrder, st.currentCardIdx)
  IN IF newOrder = <<>> \/ st.currentCardIdx >= Len(newOrder)
     THEN [st EXCEPT !.cardOrder = newOrder, !.pendingRating = "null",
                     !.phase = "done", !.isPlaying = FALSE]
     ELSE [st EXCEPT !.cardOrder = newOrder, !.pendingRating = "null", !.phase = "question"]

\* advanceQueue(state)
advanceQueue(st, jitter) ==
  LET rating == st.pendingRating
      cardValue == CardAt(st)
      spliced == SpliceOut(st.cardOrder, st.currentCardIdx)
      newOrder == IF rating \in {"again", "hard", "good"}
                  THEN LET remaining == Len(spliced) - st.currentCardIdx
                           distance == getReinsertDistance(rating, remaining, jitter)
                           insertAt == Min(st.currentCardIdx + distance, Len(spliced))
                       IN SpliceIn(spliced, insertAt, cardValue)
                  ELSE spliced
  IN IF newOrder = <<>> \/ st.currentCardIdx >= Len(newOrder)
     THEN [st EXCEPT !.cardOrder = newOrder, !.pendingRating = "null",
                     !.phase = "done", !.isPlaying = FALSE]
     ELSE [st EXCEPT !.cardOrder = newOrder, !.pendingRating = "null", !.phase = "question"]

\* dispatch: the reducer's result becomes the state; nothing else changes.
dispatch(st) ==
  /\ state' = st
  /\ UNCHANGED <<rcVars, poolVars, pipeVars, argv, yamlConfig, batch, refs, partsList, srv, ff>>

LOAD_FILE ==
  \E n \in 1..MaxDeck : \E order \in makeOrder(n, state.isShuffled) :
    dispatch([state EXCEPT !.nCards = n, !.cardOrder = order, !.currentCardIdx = 0,
                           !.phase = "idle", !.isPlaying = FALSE, !.pendingRating = "null"])

PLAY ==
  IF state.phase = "done"
  THEN \E order \in (IF state.isQueueMode THEN makeOrder(state.nCards, state.isShuffled)
                     ELSE {state.cardOrder}) :
         dispatch([state EXCEPT !.isPlaying = TRUE, !.currentCardIdx = 0, !.cardOrder = order,
                                !.phase = "question", !.pendingRating = "null"])
  ELSE IF state.phase = "idle"
  THEN dispatch([state EXCEPT !.isPlaying = TRUE, !.phase = "question"])
  ELSE dispatch([state EXCEPT !.isPlaying = TRUE])

PAUSE == dispatch([state EXCEPT !.isPlaying = FALSE])

\* The phase progression effect and the audio callbacks: the SET_PHASE
\* dispatches of the hook.
SET_PHASE ==
  \/ /\ state.isPlaying /\ state.nCards > 0 /\ CardAt(state) # NoCard
     /\ state.phase \in {"question", "q-pause", "answer"}
     /\ dispatch([state EXCEPT !.phase = CASE state.phase = "question" -> "q-speaking"
                                           [] state.phase = "q-pause" -> "answer"
                                           [] state.phase = "answer" -> "a-speaking"])
  \/ /\ state.phase \in {"q-speaking", "a-speaking"}
     /\ dispatch([state EXCEPT !.phase = IF state.phase = "q-speaking" THEN "q-pause" ELSE "a-pause"])

NEXT_CARD ==
  IF state.isQueueMode
  THEN \E jitter \in {0, 1} : dispatch(advanceQueue(state, jitter))
  ELSE IF state.currentCardIdx + 1 >= Len(state.cardOrder)
  THEN dispatch([state EXCEPT !.phase = "done", !.isPlaying = FALSE])
  ELSE dispatch([state EXCEPT !.currentCardIdx = @ + 1, !.phase = "question"])

PREV_CARD ==
  dispatch([state EXCEPT !.currentCardIdx = Max(0, @ - 1), !.phase = "question",
                         !.pendingRating = "null"])

GO_TO_CARD ==
  \E index \in 0..(state.nCards - 1) :
    dispatch([state EXCEPT !.currentCardIdx = index, !.phase = "question",
                           !.isPlaying = TRUE, !.pendingRating = "null"])

\* rateCard(rating) for again, hard and good
MARK_CARD ==
  \E rating \in {"again", "hard", "good"} :
    dispatch([state EXCEPT !.pendingRating = rating])

\* rateCard('easy')
SKIP_CARD ==
  \E jitter \in {0, 1} : dispatch(advanceQueue([state EXCEPT !.pendingRating = "null"], jitter))

TOGGLE_SHUFFLE ==
  \E order \in makeOrder(state.nCards, ~state.isShuffled) :
    dispatch([state EXCEPT !.isShuffled = ~@, !.cardOrder = order, !.currentCardIdx = 0,
                           !.phase = "idle", !.isPlaying = FALSE, !.pendingRating = "null"])

TOGGLE_QUEUE_MODE ==
  \E order \in makeOrder(state.nCards, state.isShuffled) :
    dispatch([state EXCEPT !.isQueueMode = ~@, !.cardOrder = order, !.currentCardIdx = 0,
                           !.phase = "idle", !.isPlaying = FALSE, !.pendingRating = "null"])

RESTART ==
  \E order \in makeOrder(state.nCards, state.isShuffled) :
    dispatch([state EXCEPT !.cardOrder = order, !.currentCardIdx = 0, !.phase = "idle",
                           !.isPlaying = FALSE, !.pendingRating = "null"])

InitPlay ==
  /\ RCIdle /\ PoolIdle /\ PipeIdle
  /\ argv = NoArgv /\ yamlConfig = NoYaml /\ batch = NoBatch
  /\ state = initialState /\ ExtraIdle

\* Sessions without shuffle: a shuffled order is the plain order with the
\* cards renamed, and the reducer never looks at a card's number.
NextPlay ==
  \/ LOAD_FILE \/ PLAY \/ PAUSE \/ SET_PHASE \/ NEXT_CARD \/ PREV_CARD \/ GO_TO_CARD
  \/ MARK_CARD \/ SKIP_CARD \/ TOGGLE_QUEUE_MODE \/ RESTART

SpecPlay == InitPlay /\ [][NextPlay]_vars


Count(q, v) == Cardinality({k \in 1..Len(q) : q[k] = v})
Without(q, v) == SelectSeq(q, LAMBDA x : x # v)
PositionOf(q, v) == CHOOSE k \in 1..Len(q) : q[k] = v

\* The card is kept once, at or behind the current position, and the other
\* entries are as they were.
Reinserted(old, new, at, c) ==
  /\ Len(new) = Len(old)
  /\ Count(new, c) = 1
  /\ PositionOf(new, c) >= at + 1
  /\ Without(new, c) = Without(old, c)

\* C28: in every state of a queue-mode session whose current position holds
\* a card, what NEXT_CARD makes of the queue when the card is rated again,
\* hard or good has the same length, holds that card exactly once at a
\* position not before the current one and every other entry as before;
\* what SKIP_CARD (the Easy rating) makes of it is the queue without exactly
\* that card; and no card is ever in the queue twice.
C28_AdvanceKeepsOrDropsOneCard ==
  /\ \A c \in 0..(MaxDeck - 1) : Count(state.cardOrder, c) <= 1
  /\ (state.isQueueMode /\ CardAt(state) # NoCard) =>
       \A jitter \in {0, 1} :
         /\ state.pendingRating \in {"again", "hard", "good"} =>
              Reinserted(state.cardOrder, advanceQueue(state, jitter).cardOrder,
                         state.currentCardIdx, CardAt(state))
         /\ LET skipped == advanceQueue([state EXCEPT !.pendingRating = "null"], jitter).cardOrder
            IN /\ skipped = SpliceOut(state.cardOrder, state.currentCardIdx)
               /\ Count(skipped, CardAt(state)) = 0

\* A session on five cards in queue mode: card 0 was rated and put back
\* behind card 3 and before card 4, card 1 was dropped.
C28_Witness ==
  /\ state.isQueueMode /\ state.nCards = 5
  /\ state.cardOrder = <<2, 3, 0, 4>>
  /\ state.currentCardIdx = 0 /\ state.phase = "question"

\* C29: in queue mode the phase is 'done' only when cardOrder is empty.
C29_DoneOnlyWhenQueueEmpty ==
  (state.isQueueMode /\ state.phase = "done") => state.cardOrder = <<>>


\* Job id was sent to a worker process that has died without answering it.
InFlightOnDeadWorker(id) ==
  \E w \in 1..size : proc[w] = "exited" /\ id \in workerJobs[w]

\* C30: when a worker process dies while a job is in flight on it, that
\* job's promise is eventually rejected.
C30_CrashRejectsJob ==
  \A id \in 0..(LiveJobs - 1) :
    InFlightOnDeadWorker(id) ~> (id < Len(promise) /\ promise[id + 1].st = "rejected")


\* C31: once a clip-encode task of runConcurrent has rejected, no task is
\* started any more (the started count of every task stays as it is).
C31_NoStartAfterRejection ==
  [][(pc = "encode" /\ \E i \in 1..Len(tasks) : tasks[i] = "err") => started' = started]_vars


\* No file of files carries the prefix of a question or answer slot and the
\* extension .wav without being a part file or the final file of its plan.
NoStaleAudio(files) ==
  \A k \in 1..Len(audioPlans) : \A f \in files :
    Matches(config.tempDir, StalePrefix(audioPlans[k]), "wav", f.path)
      => f.path \in PlanPaths(<<audioPlans[k]>>)

\* C32: when the stale-audio cleanup that ends Stage 2 runs with no failing
\* deletion, the temp directory afterwards holds, for every question and
\* answer slot, no .wav file with the slot's prefix other than the audio
\* files of the slot's current plan.
C32_NoStaleAudioAfterStage2 ==
  [][(pc = "cleanup" /\ pc' = "slides"
        /\ fs' = CleanAll([files |-> fs, threw |-> FALSE], 1, {}).files)
       => NoStaleAudio(fs')]_vars


\* Every synthesis job of the run has resolved: nothing queued or in flight,
\* every promise of the last pool resolved, both voice phases are over and
\* the WAV of every part that was submitted is on disk.
AllSynthesisResolved ==
  /\ phase = "code"
  /\ queue = <<>> /\ pending = {}
  /\ \A j \in 1..Len(promise) : promise[j].st = "resolved"
  /\ ~config.skipTTS =>
       /\ \A j \in 1..Len(uncachedMain) : Exists(uncachedMain[j].audioPath)
       /\ \A j \in 1..Len(uncachedCode) : Exists(uncachedCode[j].audioPath)

\* C33: while Phase 2C runs, every synthesis job of the main-voice pool and
\* of the code-voice pool has resolved, and the inputs of the concatenation
\* just made are the audio files of the plan's parts, in the order of the parts.
C33_ConcatAfterSynthesisInPartOrder ==
  pc = "concatAudio" =>
    /\ AllSynthesisResolved
    /\ planIdx > 0 =>
         LET plan == audioPlans[planIdx] IN
           /\ plan.isMultiPart
           /\ Len(partsList) = Len(plan.parts)
           /\ \A a \in 1..Len(plan.parts) : partsList[a] = plan.parts[a].audioPath

\* A plan of several parts, of both voices, synthesized in this run by
\* the two pools, has just been concatenated.
C33_Witness ==
  /\ pc = "concatAudio" /\ planIdx > 0
  /\ Len(partsList) >= 2 /\ partsList[1] # partsList[2]
  /\ Len(uncachedMain) > 0 /\ Len(uncachedCode) > 0
  /\ Exists(audioPlans[planIdx].finalAudioPath)


\* ---------------------------------------------------------------------
\* concatenateClips: the progress handler of the final encode
\* ---------------------------------------------------------------------

\* The timemarks ffmpeg may report: hours, minutes, seconds.
Timemarks == {[h |-> 0, m |-> 0, s |-> k] : k \in 0..(MaxClips * MaxDur + 1)}

\* timemarkToSeconds
timemarkToSeconds(timemark) == timemark.h * 3600 + timemark.m * 60 + timemark.s

\* const cumulative: the running sums of clipDurations
RECURSIVE cumulative(_)
cumulative(clipDurations) ==
  IF clipDurations = <<>> THEN <<>>
  ELSE LET front == cumulative(SubSeq(clipDurations, 1, Len(clipDurations) - 1))
           sum == IF front = <<>> THEN 0 ELSE front[Len(front)]
       IN Append(front, sum + clipDurations[Len(clipDurations)])

\* cumulative.findIndex(c => c > sec), and the last index when none is found
\* (indices count from 0).
ClipIndex(cum, sec) ==
  LET found == {k \in 1..Len(cum) : cum[k] > sec}
  IN IF found = {} THEN Len(cum) - 1
     ELSE (CHOOSE k \in found : \A j \in found : k <= j) - 1

onProgressCalls_everyTick(f, idx) == Append(f.calls, idx)

\* if (idx !== lastClip) { lastClip = idx; onProgress(idx, clipPaths.length) }
onProgressCalls(f, idx) == IF idx # f.lastClip THEN Append(f.calls, idx) ELSE f.calls

\* concatenateClips is called with the clip durations; ffmpeg starts.
RunFfmpeg ==
  /\ ff.st = "off"
  /\ \E n \in 1..MaxClips : \E durs \in [1..n -> 1..MaxDur] :
       ff' = [durs |-> durs, st |-> "running", sec |-> 0, lastClip |-> 0, calls |-> <<>>]
  /\ UNCHANGED <<rcVars, poolVars, pipeVars, argv, yamlConfig, batch, state, refs, partsList, srv>>

\* .on('progress'): one encoder tick, its timemark not before the last one.
OnProgressTick ==
  /\ ff.st = "running"
  /\ \E timemark \in Timemarks :
       LET sec == timemarkToSeconds(timemark)
           idx == ClipIndex(cumulative(ff.durs), sec)
       IN /\ sec >= ff.sec
          /\ ff' = [ff EXCEPT !.sec = sec, !.lastClip = idx, !.calls = onProgressCalls(ff, idx)]
  /\ UNCHANGED <<rcVars, poolVars, pipeVars, argv, yamlConfig, batch, state, refs, partsList, srv>>

\* .on('end'): onProgress(clipPaths.length, clipPaths.length), then resolve.
OnEnd ==
  /\ ff.st = "running"
  /\ ff' = [ff EXCEPT !.st = "ended", !.calls = Append(@, Len(ff.durs))]
  /\ UNCHANGED <<rcVars, poolVars, pipeVars, argv, yamlConfig, batch, state, refs, partsList, srv>>

\* .on('error'): reject, no further report.
OnError ==
  /\ ff.st = "running"
  /\ ff' = [ff EXCEPT !.st = "error"]
  /\ UNCHANGED <<rcVars, poolVars, pipeVars, argv, yamlConfig, batch, state, refs, partsList, srv>>

InitClips == RCIdle /\ PoolIdle /\ PipeIdle /\ AppIdle

NextClips == RunFfmpeg \/ OnProgressTick \/ OnEnd \/ OnError

SpecClips == InitClips /\ [][NextClips]_vars

\* The reports made by the progress handler (the final one left out).
TickCalls == IF ff.st = "ended" THEN SubSeq(ff.calls, 1, Len(ff.calls) - 1) ELSE ff.calls

\* C34 as stated: the handler has reported once for each clip boundary the
\* encoder has crossed (the clip index of the last timemark counts them), the
\* reported indices never decrease, and after the end the last report is
\* onProgress(total, total).
C34_OnceForEachBoundaryCrossed ==
  ff.st \in {"running", "ended"} =>
    /\ Len(TickCalls) = ClipIndex(cumulative(ff.durs), ff.sec)
    /\ \A a, b \in 1..Len(ff.calls) : a < b => ff.calls[a] <= ff.calls[b]
    /\ ff.st = "ended" => ff.calls[Len(ff.calls)] = Len(ff.durs)

\* C34 amended: the handler reports at most once for each clip boundary
\* crossed (a tick that jumps over a clip gives one report): its reports are
\* strictly increasing clip indices, so never two for the same clip, the last
\* one is the clip of the last timemark whenever that is not the first clip,
\* and after the end one more report onProgress(total, total) is made.
C34_OncePerTickEnteringAClip ==
  ff.st \in {"running", "ended"} =>
    LET now == ClipIndex(cumulative(ff.durs), ff.sec) IN
      /\ Len(TickCalls) <= now
      /\ \A a, b \in 1..Len(TickCalls) : a < b => TickCalls[a] < TickCalls[b]
      /\ now > 0 => TickCalls # <<>> /\ TickCalls[Len(TickCalls)] = now
      /\ now = 0 => TickCalls = <<>>
      /\ \A a, b \in 1..Len(ff.calls) : a < b => ff.calls[a] <= ff.calls[b]
      /\ ff.st = "ended" => ff.calls[Len(ff.calls)] = Len(ff.durs)

\* Three clips, a tick inside the first clip, a tick that jumps to the
\* third, a second tick inside the third, then the end.
C34_Witness ==
  /\ ff.st = "ended" /\ Len(ff.durs) = 3
  /\ ff.calls = <<2, 3>>
  /\ ff.sec > cumulative(ff.durs)[2]


C36_NoWorkerLeftRunning ==
  pc \in {"done", "failed"} => \A w \in 1..size : proc[w] \notin {"loading", "up"}


\* ---------------------------------------------------------------------
\* Web server: the TTS queue and GET /api/audio/:name/:cardIndex/:type
\* ---------------------------------------------------------------------
\* srv.tts: "none" | "initializing" | "ready" | "failed" (ttsInitialized,
\*   ttsInitializing and how its promise settled)
\* srv.ttsQueue: the jobs waiting, each [r, k]: part k of the plan, for request r
\* srv.loops: the running calls of processQueue, each with the job it took
\*   and where it waits: "ensure" (await ensureTTS) or "synth" (await synthesize)
\* srv.req[r]: the handler of request r: "none" (not arrived), "waiting" (await
\*   enqueue of part k), "resolved" / "rejected" (that promise settled, the
\*   handler not resumed yet), "list" (concatenateAudioFiles writes its list),
\*   "ffmpeg" (ffmpeg writes finalAudioPath), "sent" (res.sendFile), "error";
\*   partial: the file sent was being written at that moment
\* srv.cache: the paths that exist in the temp directory

\* buildAudioPlan for the card asked for: prose only, or prose and code.
ServerPlans ==
  {[parts |-> <<"part1.wav">>, finalAudioPath |-> "part1.wav", isMultiPart |-> FALSE],
   [parts |-> <<"part1.wav", "part2.wav">>, finalAudioPath |-> "final.wav", isMultiPart |-> TRUE]}

\* isCached(path, false) on the server's temp directory
srvCached(sv, path) == path \in sv.cache

\* Who is producing the file at path: a synthesize call of a loop, or the
\* ffmpeg of a request that concatenates.
Writers(sv, path) ==
  {<<"synthesize", l.job>> : l \in {x \in sv.loops : x.at = "synth" /\ sv.plan.parts[x.job.k] = path}}
    \cup {<<"ffmpeg", r>> : r \in {x \in DOMAIN sv.req :
                                     sv.req[x].st = "ffmpeg" /\ sv.plan.finalAudioPath = path}}

\* ensureTTS up to its await: the first call starts initTTS.
ensureTTS(sv) == IF sv.tts = "none" THEN [sv EXCEPT !.tts = "initializing"] ELSE sv

\* while (ttsQueue.length > 0) { const job = ttsQueue.shift(); await ensureTTS(...)
\* and, past the loop, processing = false.
TakeNext(sv) ==
  IF sv.ttsQueue = <<>> THEN [sv EXCEPT !.processing = FALSE]
  ELSE ensureTTS([sv EXCEPT !.ttsQueue = Tail(@),
                            !.loops = @ \cup {[job |-> Head(sv.ttsQueue), at |-> "ensure"]}])

processQueue_noGuard(sv) == TakeNext([sv EXCEPT !.processing = TRUE])

\* processQueue: if (processing) return; processing = true; then the loop.
processQueue(sv) == IF sv.processing THEN sv ELSE TakeNext([sv EXCEPT !.processing = TRUE])

\* enqueue(text, path, voice): push the job, call processQueue.
enqueue(sv, r, k) ==
  processQueue([sv EXCEPT !.ttsQueue = Append(@, [r |-> r, k |-> k]),
                          !.req[r] = [st |-> "waiting", k |-> k, partial |-> FALSE]])

\* res.sendFile(plan.finalAudioPath)
sendFile(sv, r) ==
  [sv EXCEPT !.req[r].st = "sent",
             !.req[r].partial = (Writers(sv, sv.plan.finalAudioPath) \ {<<"ffmpeg", r>>}) # {}]

\* The handler of request r starts: the cached file is sent, or the first
\* part is enqueued.
Request(r) ==
  /\ r \in DOMAIN srv.req /\ srv.req[r].st = "none"
  /\ srv' = IF srvCached(srv, srv.plan.finalAudioPath) THEN sendFile(srv, r)
            ELSE enqueue(srv, r, 1)
  /\ UNCHANGED <<rcVars, poolVars, pipeVars, argv, yamlConfig, batch, state, refs, partsList, ff>>

\* initTTS settles.
InitTTSDone ==
  /\ srv.tts = "initializing"
  /\ \E ok \in BOOLEAN : srv' = [srv EXCEPT !.tts = IF ok THEN "ready" ELSE "failed"]
  /\ UNCHANGED <<rcVars, poolVars, pipeVars, argv, yamlConfig, batch, state, refs, partsList, ff>>

\* job.resolve() or job.reject(err) for the job of loop l, which goes on to
\* the next turn of its while loop.
SettleJob(sv, l, ok) ==
  TakeNext([sv EXCEPT !.loops = @ \ {l},
                      !.req[l.job.r].st = IF ok THEN "resolved" ELSE "rejected"])

\* await ensureTTS returned or threw in loop l: the job is rejected, or
\* resolved at once when its file is cached, or synthesize is called.
Ensured ==
  /\ srv.tts \in {"ready", "failed"}
  /\ \E l \in srv.loops :
       /\ l.at = "ensure"
       /\ srv' = IF srv.tts = "failed" THEN SettleJob(srv, l, FALSE)
                 ELSE IF srvCached(srv, srv.plan.parts[l.job.k]) THEN SettleJob(srv, l, TRUE)
                 ELSE [srv EXCEPT !.loops = (@ \ {l}) \cup {[l EXCEPT !.at = "synth"]}]
  /\ UNCHANGED <<rcVars, poolVars, pipeVars, argv, yamlConfig, batch, state, refs, partsList, ff>>

\* await synthesize returned (the part file is saved) or threw.
SynthDone ==
  /\ \E l \in srv.loops, ok \in BOOLEAN :
       /\ l.at = "synth"
       /\ srv' = SettleJob([srv EXCEPT !.cache = IF ok THEN @ \cup {srv.plan.parts[l.job.k]} ELSE @],
                           l, ok)
  /\ UNCHANGED <<rcVars, poolVars, pipeVars, argv, yamlConfig, batch, state, refs, partsList, ff>>

\* The handler of request r resumes after await enqueue: next(err) when the
\* promise rejected; otherwise the next part is enqueued, or after the last
\* part the concatenation starts (multi-part, final file not there) or the
\* file is sent.
ResumeRequest(r) ==
  /\ r \in DOMAIN srv.req /\ srv.req[r].st \in {"resolved", "rejected"}
  /\ srv' = IF srv.req[r].st = "rejected" THEN [srv EXCEPT !.req[r].st = "error"]
            ELSE IF srv.req[r].k < Len(srv.plan.parts) THEN enqueue(srv, r, srv.req[r].k + 1)
            ELSE IF srv.plan.isMultiPart /\ ~srvCached(srv, srv.plan.finalAudioPath)
                 THEN [srv EXCEPT !.req[r].st = "list"]
                 ELSE sendFile(srv, r)
  /\ UNCHANGED <<rcVars, poolVars, pipeVars, argv, yamlConfig, batch, state, refs, partsList, ff>>

\* concatenateAudioFiles: the list file is written and ffmpeg is started; it
\* creates finalAudioPath and writes to it.
StartFfmpeg(r) ==
  /\ r \in DOMAIN srv.req /\ srv.req[r].st = "list"
  /\ srv' = [srv EXCEPT !.req[r].st = "ffmpeg", !.cache = @ \cup {srv.plan.finalAudioPath}]
  /\ UNCHANGED <<rcVars, poolVars, pipeVars, argv, yamlConfig, batch, state, refs, partsList, ff>>

\* ffmpeg exits: the file is sent, or next(err).
FfmpegDone(r) ==
  /\ r \in DOMAIN srv.req /\ srv.req[r].st = "ffmpeg"
  /\ \E ok \in BOOLEAN :
       srv' = IF ok THEN sendFile(srv, r) ELSE [srv EXCEPT !.req[r].st = "error"]
  /\ UNCHANGED <<rcVars, poolVars, pipeVars, argv, yamlConfig, batch, state, refs, partsList, ff>>

\* A server with nothing cached for the card, and MaxReq requests for its
\* audio on their way.
InitServer ==
  /\ RCIdle /\ PoolIdle /\ PipeIdle
  /\ argv = NoArgv /\ yamlConfig = NoYaml /\ batch = NoBatch /\ state = initialState
  /\ refs = NoRefs /\ partsList = <<>> /\ ff = NoFfmpeg
  /\ \E plan \in ServerPlans :
       srv = [NoServer EXCEPT !.plan = plan,
                              !.req = [r \in 1..MaxReq |-> [st |-> "none", k |-> 0, partial |-> FALSE]]]

Requests == \E r \in 1..MaxReq : Request(r)
Resumes == \E r \in 1..MaxReq : ResumeRequest(r)
StartsFfmpeg == \E r \in 1..MaxReq : StartFfmpeg(r)
FfmpegEnds == \E r \in 1..MaxReq : FfmpegDone(r)

NextServer == Requests \/ InitTTSDone \/ Ensured \/ SynthDone \/ Resumes \/ StartsFfmpeg \/ FfmpegEnds

\* initTTS and synthesize settle, and the event loop runs every continuation.
FairServer ==
  /\ WF_vars(InitTTSDone) /\ WF_vars(Ensured) /\ WF_vars(SynthDone)
  /\ WF_vars(Resumes) /\ WF_vars(StartsFfmpeg) /\ WF_vars(FfmpegEnds)

SpecServer == InitServer /\ [][NextServer]_vars /\ FairServer

\* At most one loop, so at most one synthesize call, and a loop is running
\* whenever a job is in the queue.
OneLoop ==
  /\ Cardinality(srv.loops) <= 1
  /\ Cardinality({l \in srv.loops : l.at = "synth"}) <= 1
  /\ srv.ttsQueue # <<>> => srv.processing /\ srv.loops # {}
  /\ srv.loops # {} => srv.processing

\* A step rejects at most the promise of the job a loop holds.
RejectsOwnOnly ==
  \A r \in DOMAIN srv.req :
    (srv.req[r].st # "rejected" /\ srv'.req[r].st = "rejected") =>
      /\ \E l \in srv.loops : l.job.r = r /\ l \notin srv'.loops
      /\ \A q \in DOMAIN srv.req \ {r} : srv'.req[q].st = srv.req[q].st

\* C37: the server never has two synthesize calls in progress, a queued job
\* always has a running loop to take it, a rejection touches only the job
\* the loop holds, and every enqueued job is taken and settled in the end,
\* also after an earlier job failed.
C37_OneSynthesisEveryJobTaken ==
  /\ []OneLoop
  /\ [][RejectsOwnOnly]_vars
  /\ \A r \in 1..MaxReq : (srv.req[r].st = "waiting") ~> (srv.req[r].st # "waiting")

\* Two requests at once: the job of the first was rejected by a failing
\* synthesize, the job of the second is held by the loop, in synthesize.
C37_Witness ==
  /\ \E r \in DOMAIN srv.req : srv.req[r].st \in {"rejected", "error"}
  /\ \E l \in srv.loops : l.at = "synth"
  /\ srv.tts = "ready"

\* C38: no file of the cache has two writers at the same time, and no
\* response was sent from a file that was being written.
C38_OneWriterNoPartialResponse ==
  /\ \A path \in srv.cache \cup {srv.plan.finalAudioPath} : Cardinality(Writers(srv, path)) <= 1
  /\ \A r \in DOMAIN srv.req : ~srv.req[r].partial


\* ---------------------------------------------------------------------
\* usePlayback: the reducer together with the audio element, the timer and
\* the phase progression effect
\* ---------------------------------------------------------------------
\* refs.audio: "none" | "playing" | "stopped" (paused, rewound) | "ended"
\* refs.timer: "none" | "answer" | "next" (what the armed timeout dispatches)

\* stopAudioAndTimer
stopAudioAndTimer(rf) ==
  [audio |-> IF rf.audio = "none" THEN "none" ELSE "stopped", timer |-> "none"]

\* The phase progression effect on the rendered state st: its dispatches
\* and what it starts.
phaseEffect(st, rf) ==
  IF ~st.isPlaying \/ st.nCards = 0 \/ CardAt(st) = NoCard
  THEN [state |-> st, refs |-> rf]
  ELSE CASE st.phase = "question" ->
              [state |-> [st EXCEPT !.phase = "q-speaking"], refs |-> [rf EXCEPT !.audio = "playing"]]
         [] st.phase = "q-pause" -> [state |-> st, refs |-> [rf EXCEPT !.timer = "answer"]]
         [] st.phase = "answer" ->
              [state |-> [st EXCEPT !.phase = "a-speaking"], refs |-> [rf EXCEPT !.audio = "playing"]]
         [] st.phase = "a-pause" -> [state |-> st, refs |-> [rf EXCEPT !.timer = "next"]]
         [] OTHER -> [state |-> st, refs |-> rf]

\* The render after a dispatch: the effect runs when one of its
\* dependencies [phase, isPlaying, currentCardIdx] has changed.
afterRender(old, new, rf) ==
  IF <<old.phase, old.isPlaying, old.currentCardIdx>> = <<new.phase, new.isPlaying, new.currentCardIdx>>
  THEN [state |-> new, refs |-> rf]
  ELSE phaseEffect(new, rf)

\* One event of the hook: the reducer gave `new`, the refs are rf, then the
\* render and its effect.
HookStep(new, rf) ==
  /\ state' = afterRender(state, new, rf).state
  /\ refs' = afterRender(state, new, rf).refs
  /\ UNCHANGED <<rcVars, poolVars, pipeVars, argv, yamlConfig, batch, partsList, srv, ff>>

\* reducer, case 'PLAY' outside queue mode
reducePLAY(st) ==
  IF st.phase = "done"
  THEN [st EXCEPT !.isPlaying = TRUE, !.currentCardIdx = 0, !.phase = "question",
                  !.pendingRating = "null"]
  ELSE IF st.phase = "idle" THEN [st EXCEPT !.isPlaying = TRUE, !.phase = "question"]
  ELSE [st EXCEPT !.isPlaying = TRUE]

\* reducer, case 'NEXT_CARD' outside queue mode
reduceNEXT_CARD(st) ==
  IF st.currentCardIdx + 1 >= Len(st.cardOrder)
  THEN [st EXCEPT !.phase = "done", !.isPlaying = FALSE]
  ELSE [st EXCEPT !.currentCardIdx = @ + 1, !.phase = "question"]

\* loadFile(name, data)
loadFile ==
  \E n \in 1..MaxPlayCards :
    HookStep([state EXCEPT !.nCards = n, !.cardOrder = [k \in 1..n |-> k - 1],
                           !.currentCardIdx = 0, !.phase = "idle", !.isPlaying = FALSE,
                           !.pendingRating = "null"],
             stopAudioAndTimer(refs))

\* play()
play == state.nCards > 0 /\ ~state.isPlaying /\ HookStep(reducePLAY(state), refs)

\* pause()
pause ==
  state.isPlaying /\ HookStep([state EXCEPT !.isPlaying = FALSE], stopAudioAndTimer(refs))

\* audio.onended / audio.onerror
onended ==
  /\ refs.audio = "playing"
  /\ HookStep(IF state.phase = "q-speaking" THEN [state EXCEPT !.phase = "q-pause"]
              ELSE IF state.phase = "a-speaking" THEN [state EXCEPT !.phase = "a-pause"]
              ELSE state,
              [refs EXCEPT !.audio = "ended"])

\* audio.play() rejects: dispatch PAUSE
playRejected ==
  /\ refs.audio = "playing"
  /\ HookStep([state EXCEPT !.isPlaying = FALSE], [refs EXCEPT !.audio = "none"])

\* The timeout of q-pause or a-pause fires.
timerFires ==
  /\ refs.timer # "none"
  /\ HookStep(IF refs.timer = "answer" THEN [state EXCEPT !.phase = "answer"]
              ELSE reduceNEXT_CARD(state),
              [refs EXCEPT !.timer = "none"])

InitHook ==
  /\ RCIdle /\ PoolIdle /\ PipeIdle
  /\ argv = NoArgv /\ yamlConfig = NoYaml /\ batch = NoBatch
  /\ state = initialState /\ ExtraIdle

NextHook == loadFile \/ play \/ pause \/ onended \/ playRejected \/ timerFires

\* Started audio ends or errors, and armed timers fire.
SpecHook == InitHook /\ [][NextHook]_vars /\ WF_vars(onended) /\ WF_vars(timerFires)

ActivePhases == {"question", "q-speaking", "q-pause", "answer", "a-speaking", "a-pause"}

\* C39: with a file loaded and isPlaying true, playback leaves every phase
\* it is in (or isPlaying becomes false), whatever PAUSE and PLAY came before.
C39_PlaybackAdvances ==
  \A p \in ActivePhases :
    (state.nCards > 0 /\ state.isPlaying /\ state.phase = p)
      ~> (~state.isPlaying \/ state.phase # p)

\* C2: for a pool of size K and more jobs than workers, the jobs sent to a
\* worker and not yet answered (the pending map) never number more than K.
C2_PendingAtMostSize == Cardinality(pending) <= size

\* More jobs than workers were enqueued, one reply has been handled, every
\* worker holds a job and a job still waits in the queue.
C2_Witness ==
  /\ size >= 2 /\ nextId > size
  /\ Cardinality(pending) = size
  /\ queue # <<>>
  /\ \E j \in 1..Len(promise) : promise[j].st # "pending"

\* C3: runConcurrent(tasks, N) never has more than N tasks started and not
\* yet settled, for any task list and any completion order.
C3_AtMostLimitInFlight ==
  rcOutcome # "idle" => Cardinality(InFlight) <= limit

\* The limit is reached while tasks are still waiting, after a first task
\* has settled out of list order and its worker has taken another one.
C3_Witness ==
  /\ limit >= 2 /\ Len(tasks) > limit /\ next > limit
  /\ Cardinality(InFlight) = limit
  /\ reordered

\* C4: when runConcurrent (N >= 1) has resolved, every task was started
\* exactly once and has completed, and results[i] is the value of tasks[i],
\* whatever the order in which the tasks completed.
C4_ResultsInTaskOrder ==
  (rcOutcome = "resolved" /\ limit >= 1) =>
    \A i \in 1..Len(tasks) :
      /\ started[i] = 1
      /\ tasks[i] = "ok"
      /\ results[i] = taskVal[i]

\* A resolved run of at least three tasks, two workers, where tasks settled
\* out of list order and the results are not all equal.
C4_Witness ==
  /\ rcOutcome = "resolved" /\ limit >= 2 /\ Len(tasks) >= 3
  /\ reordered
  /\ results[1] # results[2]

====
